---------------------------- MODULE Spec2Model ----------------------------
(***************************************************************************)
(* A model of the sdncheck sanctions screener: input validation, the       *)
(* normalizers, the document index and the loaders, the multi-layer        *)
(* search, screen_individual / bulk_screen, and the API server's reload.   *)
(*                                                                         *)
(* Strings are sequences of characters; a character is a TLA+ string that  *)
(* names one code point ("a", "A", " ", "e_acute", "LF", ...).  Python's   *)
(* None is the value None below, distinct from the empty string << >>.     *)
(* Scores are Python floats in the source; here a score is the exact       *)
(* fraction num/den it stands for, and the weights are hundredths.         *)
(***************************************************************************)
EXTENDS Integers, Sequences, FiniteSets, TLC

VARIABLES
    build,       \* the XML libraries the modules imported (HAS_LXML, HAS_DEFUSEDXML)
    bulk,        \* the last bulk_screen call: its rows, results and outcome
    calls,       \* every result screen_individual returned, in call order
    config,      \* the ConfigManager the component under study was built with
    entities,    \* EnhancedSanctionsScreener.entities
    docIndex,    \* EnhancedSanctionsScreener._document_index
    history,     \* EnhancedSanctionsScreener.screening_history
    phase,       \* position of the scenario ("load", "searched", "screened", ...)
    lastInput,   \* the ScreeningInput of the last call
    lastLimit,   \* the limit of the last search call
    outcome,     \* the last call's result: error raised or value returned
    trace,       \* the steps the last call performed, in order
    server       \* the API server's processes and shared state

vars == <<build, bulk, calls, config, entities, docIndex, history, phase, lastInput, lastLimit,
          outcome, trace, server>>

(***************************************************************************)
(* Characters                                                              *)
(***************************************************************************)
None == <<"<None>">>

Truthy(s) == s # None /\ s # << >>

Lower == {"a", "b", "c", "e", "o"}
UpperCs == {"A", "B", "C", "E", "O"}
Digits == {"0", "1", "5", "6", "9"}
CJK == {"LI", "MING"}
\* characters of the block U+0600..U+06FF: the letter ALEF (U+0627) and
\* ARABIC NUMBER SIGN (U+0600, "ANS"), a format character
Arabic == {"ALEF", "ANS"}
Cyrillic == {"ZHE"}
\* unicodedata.category(c) starts with 'C': LF, NUL, DEL (U+007F) and NEL
\* (U+0085) are Cc, ZWSP (U+200B), BOM (U+FEFF) and ANS (U+0600) are Cf
ControlChars == {"LF", "NUL", "ZWSP", "DEL", "NEL", "BOM", "ANS"}
\* Python's \s, str.split() and str.strip() whitespace; LSEP is U+2028 (Zl)
SpaceChars == {" ", "LF", "NEL", "LSEP"}
\* unicodedata.category(c) == 'Mn'
MnChars == {"COMB_ACUTE"}
Letters ==
    Lower \cup UpperCs \cup CJK \cup (Arabic \ ControlChars) \cup Cyrillic
        \cup {"e_acute"}

Chars == Letters \cup Digits \cup ControlChars \cup MnChars
            \cup {" ", "-", ".", "'", ",", "/", "<", ";", "_"}

\* Code points, used by sorted() on tokens
Ord(c) ==
    CASE c = "NUL" -> 0      [] c = "LF" -> 10     [] c = " " -> 32
      [] c = "'" -> 39       [] c = "," -> 44      [] c = "-" -> 45
      [] c = "." -> 46       [] c = "/" -> 47      [] c = "0" -> 48
      [] c = "1" -> 49       [] c = "5" -> 53      [] c = "6" -> 54
      [] c = "9" -> 57       [] c = ";" -> 59      [] c = "<" -> 60
      [] c = "A" -> 65       [] c = "B" -> 66      [] c = "C" -> 67
      [] c = "E" -> 69       [] c = "O" -> 79      [] c = "_" -> 95
      [] c = "DEL" -> 127    [] c = "NEL" -> 133
      [] c = "LSEP" -> 8232  [] c = "BOM" -> 65279
      [] c = "a" -> 97       [] c = "b" -> 98      [] c = "c" -> 99
      [] c = "e" -> 101      [] c = "o" -> 111     [] c = "e_acute" -> 233
      [] c = "COMB_ACUTE" -> 769                   [] c = "ZHE" -> 1046
      [] c = "ANS" -> 1536
      [] c = "ALEF" -> 1575                        [] c = "ZWSP" -> 8203
      [] c = "MING" -> 26126 [] c = "LI" -> 26446
      [] OTHER -> 1114111

\* str.upper() of one character
UpperChar(c) ==
    CASE c = "a" -> "A" [] c = "b" -> "B" [] c = "c" -> "C"
      [] c = "e" -> "E" [] c = "o" -> "O" [] c = "e_acute" -> "E_ACUTE"
      [] OTHER -> c

\* unicodedata.normalize('NFD', c) of one character
NFDChar(c) ==
    CASE c = "e_acute" -> <<"e", "COMB_ACUTE">>
      [] c = "E_ACUTE" -> <<"E", "COMB_ACUTE">>
      [] OTHER -> <<c>>

IsAlpha(c) == c \in Letters \cup {"E_ACUTE"}
IsUpperC(c) == c \in UpperCs \cup {"E_ACUTE", "ZHE"}
IsLowerC(c) == c \in Lower \cup {"e_acute"}
IsDigit(c) == c \in Digits
\* Python's \w on str: alphanumerics and the underscore
IsWord(c) == IsAlpha(c) \/ IsDigit(c) \/ c = "_"
IsSpace(c) == c \in SpaceChars

DigitVal(c) ==
    CASE c = "0" -> 0 [] c = "1" -> 1 [] c = "5" -> 5 [] c = "6" -> 6
      [] c = "9" -> 9 [] OTHER -> 0

\* the XML libraries a process can have imported: lxml before 5.0 (the default
\* parser resolves entities), lxml from 5.0 on (the default parser resolves
\* internal entities only), defusedxml without lxml, or neither
StdlibOnly == [has_lxml |-> FALSE, lxml_legacy |-> FALSE, has_defusedxml |-> FALSE]

Builds ==
    {[has_lxml |-> TRUE, lxml_legacy |-> TRUE, has_defusedxml |-> d] : d \in BOOLEAN}
      \cup {[has_lxml |-> TRUE, lxml_legacy |-> FALSE, has_defusedxml |-> d] :
                d \in BOOLEAN}
      \cup {[has_lxml |-> FALSE, lxml_legacy |-> FALSE, has_defusedxml |-> d] :
                d \in BOOLEAN}

(***************************************************************************)
(* Sequence helpers                                                        *)
(***************************************************************************)
Max(a, b) == IF a >= b THEN a ELSE b
Min(a, b) == IF a <= b THEN a ELSE b
Abs(a) == IF a >= 0 THEN a ELSE 0 - a

Range(s) == {s[i] : i \in DOMAIN s}

RECURSIVE Flatten(_)
Flatten(ss) == IF ss = << >> THEN << >> ELSE Head(ss) \o Flatten(Tail(ss))

\* str.strip()
RECURSIVE LStrip(_)
LStrip(s) == IF s # << >> /\ IsSpace(Head(s)) THEN LStrip(Tail(s)) ELSE s

RECURSIVE RStrip(_)
RStrip(s) ==
    IF s # << >> /\ IsSpace(s[Len(s)]) THEN RStrip(SubSeq(s, 1, Len(s) - 1))
    ELSE s

Strip(s) == RStrip(LStrip(s))

\* re.sub(r'\s+', ' ', s)
RECURSIVE CollapseSpaces(_)
CollapseSpaces(s) ==
    IF s = << >> THEN << >>
    ELSE IF IsSpace(Head(s))
         THEN <<" ">> \o CollapseSpaces(LStrip(s))
         ELSE <<Head(s)>> \o CollapseSpaces(Tail(s))

\* the characters of the class [\r\n\x00-\x1f\x7f-\x9f]
LogControlChars == {"NUL", "LF", "DEL", "NEL"}

\* re.sub(r'[\r\n\x00-\x1f\x7f-\x9f]', ' ', s)
BlankControls(s) ==
    << >> \o [i \in DOMAIN s |-> IF s[i] \in LogControlChars THEN " " ELSE s[i]]

\* re.sub(r'\s+', ' ', s) of a long string: each run of whitespace keeps one
\* position, which becomes a space
CollapseRuns(s) ==
    LET marked == << >> \o [i \in DOMAIN s |->
                      [c |-> IF IsSpace(s[i]) THEN " " ELSE s[i],
                       keep |-> ~IsSpace(s[i]) \/ i = 1 \/ ~IsSpace(s[i - 1])]]
        kept == SelectSeq(marked, LAMBDA e : e.keep)
    IN  << >> \o [i \in DOMAIN kept |-> kept[i].c]

LOG_MAX_LENGTH == 500

\* no truncation
TruncateNever(s, n) == s

\* sanitized[:500] if len(sanitized) > 500 else sanitized
TruncateTo(s, n) == IF Len(s) > n THEN SubSeq(s, 1, n) ELSE s

\* xml_utils.sanitize_for_logging
SanitizeForLogging(text) ==
    IF ~Truthy(text) THEN << >>
    ELSE TruncateTo(Strip(CollapseRuns(BlankControls(text))), LOG_MAX_LENGTH)

\* str.split(): the maximal runs of non-whitespace characters
RECURSIVE SplitWords(_, _)
SplitWords(s, cur) ==
    IF s = << >> THEN (IF cur = << >> THEN << >> ELSE <<cur>>)
    ELSE IF IsSpace(Head(s))
         THEN (IF cur = << >> THEN << >> ELSE <<cur>>) \o SplitWords(Tail(s), << >>)
         ELSE SplitWords(Tail(s), Append(cur, Head(s)))

Split(s) == SplitWords(s, << >>)

\* Python's str comparison: lexicographic by code point
RECURSIVE StrLess(_, _)
StrLess(a, b) ==
    IF b = << >> THEN FALSE
    ELSE IF a = << >> THEN TRUE
    ELSE IF Ord(Head(a)) # Ord(Head(b)) THEN Ord(Head(a)) < Ord(Head(b))
    ELSE StrLess(Tail(a), Tail(b))

RECURSIVE InsertSorted(_, _)
InsertSorted(w, ws) ==
    IF ws = << >> THEN <<w>>
    ELSE IF StrLess(w, Head(ws)) THEN <<w>> \o ws
    ELSE <<Head(ws)>> \o InsertSorted(w, Tail(ws))

\* sorted(tokens)
RECURSIVE SortWords(_)
SortWords(ws) ==
    IF ws = << >> THEN << >> ELSE InsertSorted(Head(ws), SortWords(Tail(ws)))

\* " ".join(tokens)
RECURSIVE JoinWords(_)
JoinWords(ws) ==
    IF ws = << >> THEN << >>
    ELSE IF Len(ws) = 1 THEN Head(ws)
    ELSE Head(ws) \o <<" ">> \o JoinWords(Tail(ws))

(***************************************************************************)
(* Normalizers (screener.py)                                               *)
(***************************************************************************)
RECURSIVE NFD(_)
NFD(s) == IF s = << >> THEN << >> ELSE NFDChar(Head(s)) \o NFD(Tail(s))

RECURSIVE DropMn(_)
DropMn(s) ==
    IF s = << >> THEN << >>
    ELSE (IF Head(s) \in MnChars THEN << >> ELSE <<Head(s)>>) \o DropMn(Tail(s))

\* re.sub(r'[^\w\s]', ' ', s)
NonWordToSpace(s) ==
    [i \in DOMAIN s |-> IF IsWord(s[i]) \/ IsSpace(s[i]) THEN s[i] ELSE " "]

UpperStr(s) == [i \in DOMAIN s |-> UpperChar(s[i])]

\* the steps in another order: strip() before the special characters
\* become spaces
NormalizeNameStripFirst(name) ==
    IF ~Truthy(name) THEN << >>
    ELSE UpperStr(CollapseSpaces(NonWordToSpace(Strip(DropMn(NFD(name))))))

\* EnhancedSanctionsScreener._normalize_name
NormalizeName(name) ==
    IF ~Truthy(name) THEN << >>
    ELSE Strip(UpperStr(CollapseSpaces(NonWordToSpace(DropMn(NFD(name))))))

RECURSIVE DropDocSeparators(_)
DropDocSeparators(s) ==
    IF s = << >> THEN << >>
    ELSE (IF IsSpace(Head(s)) \/ Head(s) \in {"-", ".", ",", "/"}
          THEN << >> ELSE <<Head(s)>>) \o DropDocSeparators(Tail(s))

\* EnhancedSanctionsScreener._normalize_document
NormalizeDocument(doc) ==
    IF ~Truthy(doc) THEN << >> ELSE UpperStr(DropDocSeparators(doc))

(***************************************************************************)
(* Input validation (screener.py, validate_screening_input)                *)
(***************************************************************************)
NAME_PATTERN_MIN == 2
NAME_PATTERN_MAX == 200
DOC_PATTERN_MAX == 50

\* The character class of NAME_PATTERN: [A-Za-zÀ-ÿ\s\-\.\'\,] plus the Arabic,
\* Cyrillic and CJK blocks
InNameClass(c) ==
    \/ c \in Lower \cup UpperCs \cup CJK \cup Arabic \cup Cyrillic
              \cup {"e_acute", "E_ACUTE"}
    \/ IsSpace(c)
    \/ c \in {"-", ".", "'", ","}

\* re.match(r'^...$', s): '$' also matches just before a trailing newline
DropFinalLF(s) ==
    IF s # << >> /\ s[Len(s)] = "LF" THEN SubSeq(s, 1, Len(s) - 1) ELSE s

NameClassRun(s) ==
    /\ \A i \in DOMAIN s : InNameClass(s[i])
    /\ Len(s) >= NAME_PATTERN_MIN
    /\ Len(s) <= NAME_PATTERN_MAX

\* a NAME_PATTERN without the Arabic, Cyrillic and CJK ranges
MatchesLatinPattern(s) ==
    /\ \A i \in DOMAIN s : s[i] \notin CJK \cup Arabic \cup Cyrillic
    /\ NameClassRun(s) \/ NameClassRun(DropFinalLF(s))

\* NAME_PATTERN.match(name)
MatchesNamePattern(s) == NameClassRun(s) \/ NameClassRun(DropFinalLF(s))

AllDigits(s) == \A i \in DOMAIN s : IsDigit(s[i])

DobShape(s) ==
    \/ Len(s) = 4 /\ AllDigits(s)
    \/ /\ Len(s) = 7
       /\ AllDigits(SubSeq(s, 1, 4)) /\ s[5] = "-" /\ AllDigits(SubSeq(s, 6, 7))
    \/ /\ Len(s) = 10
       /\ AllDigits(SubSeq(s, 1, 4)) /\ s[5] = "-" /\ AllDigits(SubSeq(s, 6, 7))
       /\ s[8] = "-" /\ AllDigits(SubSeq(s, 9, 10))

\* DOB_PATTERN.match(dob)
MatchesDobPattern(s) == DobShape(s) \/ DobShape(DropFinalLF(s))

InDocClass(c) ==
    \/ c \in Lower \cup UpperCs \cup Digits
    \/ IsSpace(c)
    \/ c \in {"-", "."}

DocClassRun(s) ==
    /\ \A i \in DOMAIN s : InDocClass(s[i])
    /\ Len(s) >= 1
    /\ Len(s) <= DOC_PATTERN_MAX

\* DOC_NUMBER_PATTERN.match(doc)
MatchesDocPattern(s) == DocClassRun(s) \/ DocClassRun(DropFinalLF(s))

NoError == [code |-> "OK", field |-> "", logged |-> FALSE]

Err(c, f, l) == [code |-> c, field |-> f, logged |-> l]

\* `name = input_data.name or ""`
NameOf(input) == IF Truthy(input.name) THEN input.name ELSE << >>

\* validate_screening_input: the error raised (code, field, whether the
\* security log was written before raising), or NoError
ValidateScreeningInput(input, cfg) ==
    LET iv == cfg.input_validation
        name == NameOf(input)
    IN  IF Len(Strip(name)) < iv.name_min_length
          THEN Err("NAME_TOO_SHORT", "name", FALSE)
        ELSE IF Len(name) > iv.name_max_length
          THEN Err("NAME_TOO_LONG", "name", FALSE)
        ELSE IF \E i \in DOMAIN name : name[i] \in iv.blocked_characters
          THEN Err("BLOCKED_CHARACTERS", "name", TRUE)
        ELSE IF iv.allow_unicode_names
                  /\ \E i \in DOMAIN name : name[i] \in ControlChars
          THEN Err("CONTROL_CHARACTER", "name", TRUE)
        ELSE IF ~iv.allow_unicode_names /\ ~MatchesNamePattern(name)
          THEN Err("INVALID_FORMAT", "name", TRUE)
        ELSE IF Truthy(input.date_of_birth)
                  /\ ~MatchesDobPattern(input.date_of_birth)
          THEN Err("INVALID_DOB_FORMAT", "date_of_birth", FALSE)
        ELSE IF Truthy(input.document_number)
                  /\ Len(input.document_number) > iv.document_max_length
          THEN Err("DOCUMENT_TOO_LONG", "document_number", FALSE)
        ELSE IF Truthy(input.document_number)
                  /\ ~MatchesDocPattern(input.document_number)
          THEN Err("INVALID_DOCUMENT_FORMAT", "document_number", FALSE)
        ELSE NoError

\* the records validate_screening_input writes with logger.warning before it
\* raises: the name passed through sanitize_for_logging, for the three
\* checks that log
ValidationLog(input, cfg) ==
    IF ValidateScreeningInput(input, cfg).logged
    THEN <<[level |-> "WARNING", excerpt |-> SanitizeForLogging(NameOf(input))]>>
    ELSE << >>

(***************************************************************************)
(* Configuration (config_manager.py).  ConfigManager._validate is empty,   *)
(* so every combination of values loads.  Weights are in hundredths.       *)
(***************************************************************************)
DefaultMatching ==
    [name_threshold |-> 85, short_name_threshold |-> 95,
     common_names |-> {},
     weights |-> [name |-> 40, document |-> 30, dob |-> 15],
     layers |-> [high_confidence |-> 85, moderate_match |-> 70, low_match |-> 60],
     adaptive_thresholds |-> [enabled |-> TRUE, chinese |-> 85, arabic |-> 90,
                              cyrillic |-> 90, latin_initials |-> 98]]

DefaultInputValidation ==
    [name_min_length |-> 2, name_max_length |-> 200, document_max_length |-> 50,
     allow_unicode_names |-> TRUE, blocked_characters |-> {"<", ";"}]

DefaultReporting == [auto_clear |-> 60, manual_review |-> 85, auto_escalate |-> 95]

\* ConfigManager() with no config file: the dataclass defaults
DefaultConfig ==
    [matching |-> DefaultMatching, input_validation |-> DefaultInputValidation,
     reporting |-> DefaultReporting]

(***************************************************************************)
(* Entities and the loaders (screener.py)                                  *)
(***************************************************************************)
RECURSIVE Dedupe(_, _)
\* list(dict.fromkeys(names))
Dedupe(names, seen) ==
    IF names = << >> THEN << >>
    ELSE IF Head(names) \in seen THEN Dedupe(Tail(names), seen)
    ELSE <<Head(names)>> \o Dedupe(Tail(names), seen \cup {Head(names)})

\* _get_text: the stripped text, or None when the child is missing or empty
GetText(t) == IF Truthy(t) THEN Strip(t) ELSE None

LowerType(t) ==
    CASE t = "Individual" -> "individual" [] t = "Entity" -> "entity"
      [] t = "Vessel" -> "vessel" [] OTHER -> t

\* the branch of the keyword cascade that a feature type text selects
FeatureKind(ft) ==
    CASE ft = "Birthdate" -> "dateOfBirth"
      [] ft = "Nationality Country" -> "nationality"
      [] ft = "Citizenship Country" -> "citizenship"
      [] ft = "IMO Number" -> "vesselIMO"
      [] OTHER -> "other"

RECURSIVE LastFeature(_, _)
\* the value the feature loop leaves in entity[kind]: the last one assigned
LastFeature(features, kind) ==
    IF features = << >> THEN None
    ELSE LET f == features[Len(features)]
         IN  IF FeatureKind(f.type) = kind THEN f.value
             ELSE LastFeature(SubSeq(features, 1, Len(features) - 1), kind)

RECURSIVE ParseDocs(_)
\* identity documents: only those with a document number are kept
ParseDocs(docs) ==
    IF docs = << >> THEN << >>
    ELSE LET d == Head(docs)
             num == GetText(d.number)
             typ == GetText(d.type)
         IN  (IF Truthy(num)
              THEN <<[type |-> IF Truthy(typ) THEN typ ELSE <<"Unknown">>,
                      number |-> num]>>
              ELSE << >>) \o ParseDocs(Tail(docs))

RECURSIVE StripNames(_)
StripNames(names) ==
    IF names = << >> THEN << >>
    ELSE (IF Truthy(Head(names)) THEN <<Strip(Head(names))>> ELSE << >>)
             \o StripNames(Tail(names))

FeatureCountries(features) ==
    {f.value : f \in {g \in Range(features) :
                        /\ FeatureKind(g.type) \in {"nationality", "citizenship"}
                        /\ Truthy(g.value)}}

\* EnhancedSanctionsScreener._parse_ofac_entity: <<the entity dict>>, or << >>
\* where the method returns None
ParseOfacEntity(elem) ==
    IF ~Truthy(elem.id) THEN << >>
    ELSE LET all_names == Dedupe(StripNames(elem.names), {})
         IN  IF all_names = << >> THEN << >>
             ELSE <<[id |-> elem.id, source |-> "OFAC",
                   type |-> LowerType(elem.entityType),
                   name |-> all_names[1], all_names |-> all_names,
                   identity_documents |-> ParseDocs(elem.documents),
                   dateOfBirth |-> LastFeature(elem.features, "dateOfBirth"),
                   nationality |-> LastFeature(elem.features, "nationality"),
                   citizenship |-> LastFeature(elem.features, "citizenship"),
                   vesselIMO |-> LastFeature(elem.features, "vesselIMO"),
                   countries |-> FeatureCountries(elem.features)]>>

\* ' '.join(name_parts).strip() over the non-empty FIRST..FOURTH_NAME texts
UnPrimaryName(parts) == Strip(JoinWords(StripNames(parts)))

\* _parse_un_individual / _parse_un_entity: <<the entity dict>>, or << >>
\* where the method returns None
ParseUnEntity(elem) ==
    IF ~Truthy(elem.id) THEN << >>
    ELSE IF elem.kind = "INDIVIDUAL"
    THEN IF StripNames(elem.names) = << >> THEN << >>
         ELSE <<[id |-> elem.id, source |-> "UN", type |-> "individual",
               name |-> UnPrimaryName(elem.names),
               all_names |-> <<UnPrimaryName(elem.names)>> \o StripNames(elem.aliases),
               identity_documents |-> ParseDocs(elem.documents),
               dateOfBirth |-> (IF Truthy(elem.dob) THEN Strip(elem.dob) ELSE None),
               nationality |-> elem.nationality,
               citizenship |-> None,
               vesselIMO |-> None,
               countries |-> IF Truthy(elem.nationality) THEN {elem.nationality} ELSE {}]>>
    ELSE IF elem.names = << >> \/ ~Truthy(elem.names[1]) THEN << >>
         ELSE <<[id |-> elem.id, source |-> "UN", type |-> "entity",
               name |-> elem.names[1],
               all_names |-> <<elem.names[1]>> \o StripNames(elem.aliases),
               identity_documents |-> << >>,
               dateOfBirth |-> None, nationality |-> None, citizenship |-> None,
               vesselIMO |-> None, countries |-> {}]>>

\* the keys under which _index_documents files one entity, in order
RECURSIVE DocKeys(_)
DocKeys(docs) ==
    IF docs = << >> THEN << >>
    ELSE (IF Truthy(Head(docs).number)
          THEN <<NormalizeDocument(Head(docs).number)>> ELSE << >>)
             \o DocKeys(Tail(docs))

EntityKeys(entity) ==
    DocKeys(entity.identity_documents)
        \o (IF Truthy(entity.vesselIMO)
            THEN <<NormalizeDocument(entity.vesselIMO)>> ELSE << >>)

RECURSIVE AddKeys(_, _, _)
AddKeys(idx, keys, ref) ==
    IF keys = << >> THEN idx
    ELSE LET k == Head(keys)
             cur == IF k \in DOMAIN idx THEN idx[k] ELSE << >>
         IN  AddKeys([x \in DOMAIN idx \cup {k} |->
                          IF x = k THEN Append(cur, ref) ELSE idx[x]],
                     Tail(keys), ref)

\* an index of the identity documents alone, without the vessel IMO
IndexDocumentsOnly(idx, entity, ref) ==
    AddKeys(idx, DocKeys(entity.identity_documents), ref)

\* EnhancedSanctionsScreener._index_documents; ref is the entity's position
IndexDocuments(idx, entity, ref) == AddKeys(idx, EntityKeys(entity), ref)

EmptyIndex == [k \in {} |-> << >>]

\* `if entity: self.entities.append(entity); self._index_documents(entity)`,
\* for the outcome e of a parse method (<< >> or <<entity>>)
AppendParsed(st, e) ==
    IF e = << >> THEN st
    ELSE [entities |-> Append(st.entities, e[1]),
          docIndex |-> IndexDocuments(st.docIndex, e[1], Len(st.entities) + 1)]

\* the loop of load_ofac / load_un over the elements of one file: a screener
\* state [entities, docIndex] after appending and indexing each parsed entity
RECURSIVE LoadElements(_, _, _)
LoadElements(st, elems, parse) ==
    IF elems = << >> THEN st
    ELSE LoadElements(
           AppendParsed(st, IF parse = "OFAC" THEN ParseOfacEntity(Head(elems))
                            ELSE ParseUnEntity(Head(elems))),
           Tail(elems), parse)

RECURSIVE SelectKind(_, _)
\* root.findall('.//INDIVIDUAL') (individuals = TRUE) or root.findall('.//ENTITY')
SelectKind(elems, individuals) ==
    IF elems = << >> THEN << >>
    ELSE (IF (Head(elems).kind = "INDIVIDUAL") = individuals
          THEN <<Head(elems)>> ELSE << >>)
         \o SelectKind(Tail(elems), individuals)

\* EnhancedSanctionsScreener.load_ofac on a screener state
LoadOfacFile(st, file) == LoadElements(st, file, "OFAC")

\* EnhancedSanctionsScreener.load_un: the individuals first, then the entities
LoadUnFile(st, file) ==
    LoadElements(st, SelectKind(file, TRUE) \o SelectKind(file, FALSE), "UN")

(***************************************************************************)
(* Scores.  A float score is kept as an exact fraction num/den.            *)
(***************************************************************************)
Rat(n, d) == [num |-> n, den |-> d]
\* score >= t, score < t for an integer threshold t
RatGE(r, t) == r.num >= t * r.den
RatLT(r, t) == r.num < t * r.den
\* a > b, a >= b for two scores
RatGT(a, b) == a.num * b.den > b.num * a.den
RatGEQ(a, b) == a.num * b.den >= b.num * a.den
RatEQ(a, b) == a.num * b.den = b.num * a.den

\* one row of the longest-common-subsequence table: the element ai is left
\* out (prev[j]) or paired with an equal b[k], k <= j (the row above at k - 1,
\* plus one)
BuildRow(prev, ai, b) ==
    << >> \o [j \in 1..Len(b) |->
                LET paired == {(IF k = 1 THEN 0 ELSE prev[k - 1]) + 1 :
                                 k \in {k \in 1..j : b[k] = ai}}
                    cands == {prev[j]} \cup paired
                IN  CHOOSE v \in cands : \A w \in cands : w <= v]

RECURSIVE LcsRows(_, _, _)
LcsRows(a, b, prev) ==
    IF a = << >> \/ prev = << >> THEN prev
    ELSE LcsRows(Tail(a), b, BuildRow(prev, Head(a), b))

LCSLen(a, b) ==
    IF a = << >> \/ b = << >> THEN 0
    ELSE LcsRows(a, b, [j \in 1..Len(b) |-> 0])[Len(b)]

\* the normalized Indel similarity of two strings: 100 * 2*LCS / (len1 + len2)
IndelRatio(t1, t2) ==
    IF Len(t1) + Len(t2) = 0 THEN Rat(100, 1)
    ELSE Rat(200 * LCSLen(t1, t2), Len(t1) + Len(t2))

\* rapidfuzz.fuzz.token_sort_ratio: the tokens of each string sorted and joined,
\* then compared
TokenSortRatio(s1, s2) ==
    IndelRatio(JoinWords(SortWords(Split(s1))), JoinWords(SortWords(Split(s2))))

\* `if score > best_name_score:` for a candidate name c with score sc
BetterName(best, c, sc) ==
    IF RatGT(sc, best.score) THEN [score |-> sc, name |-> c] ELSE best

RECURSIVE BestNameFrom(_, _, _)
\* the loop over all_names: [score, name] of the first best candidate
BestNameFrom(query_norm, names, best) ==
    IF names = << >> THEN best
    ELSE BestNameFrom(
           query_norm, Tail(names),
           IF Truthy(Head(names))
           THEN BetterName(best, Head(names),
                           TokenSortRatio(query_norm, NormalizeName(Head(names))))
           ELSE best)

BestName(query_norm, entity) ==
    BestNameFrom(query_norm, entity.all_names, [score |-> Rat(0, 1), name |-> << >>])

RECURSIVE FirstYear(_)
\* re.search(r'(\d{4})', s): the first run of four digits, as an int; -1 if none
FirstYear(s) ==
    IF Len(s) < 4 THEN -1
    ELSE IF AllDigits(SubSeq(s, 1, 4))
         THEN DigitVal(s[1]) * 1000 + DigitVal(s[2]) * 100
                  + DigitVal(s[3]) * 10 + DigitVal(s[4])
         ELSE FirstYear(Tail(s))

\* _extract_year: every later pattern contains \d{4}, so the first decides
ExtractYear(s) == IF ~Truthy(s) THEN -1 ELSE FirstYear(s)

\* _calculate_dob_score (`if input_year and entity_year`: year 0 is falsy)
CalculateDobScore(input_dob, entity_dob) ==
    LET iy == ExtractYear(input_dob)
        ey == ExtractYear(entity_dob)
    IN  IF iy > 0 /\ ey > 0 THEN Max(0, 100 - Abs(iy - ey) * 20) ELSE 0

StartsWith(s, p) == Len(p) <= Len(s) /\ SubSeq(s, 1, Len(p)) = p
EndsWith(s, p) == Len(p) <= Len(s) /\ SubSeq(s, Len(s) - Len(p) + 1, Len(s)) = p

\* the nationality check of search: the informational flag, or None
NationalityFlag(input, entity) ==
    IF ~(Truthy(input.nationality) \/ Truthy(input.country)) THEN None
    ELSE LET ics == (IF Truthy(input.nationality)
                     THEN {UpperStr(input.nationality)} ELSE {})
                    \cup (IF Truthy(input.country)
                          THEN {UpperStr(input.country)} ELSE {})
             ecs == {UpperStr(c) : c \in entity.countries}
                    \cup (IF Truthy(entity.nationality)
                          THEN {UpperStr(entity.nationality)} ELSE {})
                    \cup (IF Truthy(entity.citizenship)
                          THEN {UpperStr(entity.citizenship)} ELSE {})
         IN  IF ics \cap ecs # {} THEN <<"NATIONALITY_EXACT_MATCH_INFO">>
             ELSE IF \E ic \in ics : \E ec \in ecs :
                        /\ Min(Len(ic), Len(ec)) >= 4
                        /\ \/ StartsWith(ec, ic) \/ EndsWith(ec, ic)
                           \/ StartsWith(ic, ec) \/ EndsWith(ic, ec)
                  THEN <<"NATIONALITY_SUBSTRING_MATCH_INFO">>
                  ELSE None

\* _is_short_name
IsShortName(name) ==
    LET words == Split(name)
    IN  \/ Len(words) <= 2 /\ Len(name) < 10
        \/ \E i \in DOMAIN words : Len(words[i]) <= 2

\* _is_common_name, with _common_names as built by __init__
IsCommonName(name, cfg) ==
    NormalizeName(name) \in {NormalizeName(n) : n \in cfg.matching.common_names}

RECURSIVE DropDotsSpaces(_)
\* name.replace('.', '').replace(' ', '')
DropDotsSpaces(s) ==
    IF s = << >> THEN << >>
    ELSE (IF Head(s) \in {".", " "} THEN << >> ELSE <<Head(s)>>)
             \o DropDotsSpaces(Tail(s))

\* str.isupper(): some cased character, and no lowercase one
StrIsUpper(s) ==
    /\ \E i \in DOMAIN s : IsUpperC(s[i])
    /\ \A i \in DOMAIN s : ~IsLowerC(s[i])

StrIsAlpha(s) == s # << >> /\ \A i \in DOMAIN s : IsAlpha(s[i])

\* _is_latin_initials
IsLatinInitials(name) ==
    LET cleaned == DropDotsSpaces(name)
    IN  Len(cleaned) <= 4 /\ StrIsUpper(cleaned) /\ StrIsAlpha(cleaned)

CountIn(s, set) == Cardinality({i \in DOMAIN s : s[i] \in set})

\* _detect_unicode_script
DetectUnicodeScript(name) ==
    LET chinese == CountIn(name, CJK)
        arabic == CountIn(name, Arabic)
        cyrillic == CountIn(name, Cyrillic)
        latin == Cardinality({i \in DOMAIN name :
                                /\ name[i] \notin CJK \cup Arabic \cup Cyrillic
                                /\ IsAlpha(name[i])})
        total == chinese + arabic + cyrillic + latin
    IN  IF total = 0 THEN "latin"
        ELSE IF 2 * chinese > total THEN "chinese"
        ELSE IF 2 * arabic > total THEN "arabic"
        ELSE IF 2 * cyrillic > total THEN "cyrillic"
        ELSE IF 2 * latin > total THEN "latin"
        ELSE "mixed"

\* _get_adaptive_threshold: [threshold, reason]
GetAdaptiveThreshold(name, cfg) ==
    LET adaptive == cfg.matching.adaptive_thresholds
        script == DetectUnicodeScript(name)
    IN  IF ~adaptive.enabled
          THEN [threshold |-> cfg.matching.short_name_threshold, reason |-> "default"]
        ELSE IF IsLatinInitials(name)
          THEN [threshold |-> adaptive.latin_initials, reason |-> "latin_initials"]
        ELSE IF script = "chinese"
          THEN [threshold |-> adaptive.chinese, reason |-> "chinese_name"]
        ELSE IF script = "arabic"
          THEN [threshold |-> adaptive.arabic, reason |-> "arabic_name"]
        ELSE IF script = "cyrillic"
          THEN [threshold |-> adaptive.cyrillic, reason |-> "cyrillic_name"]
        ELSE [threshold |-> cfg.matching.short_name_threshold,
              reason |-> "latin_default"]

\* the threshold search admits against: [threshold, reason]
BaseThreshold(input, cfg) ==
    IF IsShortName(input.name) THEN GetAdaptiveThreshold(input.name, cfg)
    ELSE [threshold |-> cfg.matching.name_threshold, reason |-> "default"]

(***************************************************************************)
(* The matching engine (screener.py, search_by_document and search).  A    *)
(* MatchResult refers to its entity by the entity's position in entities.  *)
(***************************************************************************)
RECURSIVE FirstDocMatch(_, _, _, _)
\* the first identity document whose normalized number is `normalized` (and,
\* with checkType, whose type equals doc_type ignoring case): its number, or None
FirstDocMatch(docs, normalized, doc_type, checkType) ==
    IF docs = << >> THEN None
    ELSE LET d == Head(docs)
         IN  IF /\ NormalizeDocument(d.number) = normalized
                /\ \/ ~checkType
                   \/ doc_type = None
                   \/ UpperStr(d.type) = UpperStr(doc_type)
             THEN d.number
             ELSE FirstDocMatch(Tail(docs), normalized, doc_type, checkType)

\* the verification without the vessel IMO branch
VerifiedDocumentNoImo(entity, normalized, doc_type) ==
    FirstDocMatch(entity.identity_documents, normalized, doc_type, TRUE)

\* "Verify the match" in search_by_document: matched_doc, or None
VerifiedDocument(entity, normalized, doc_type) ==
    LET byDoc == FirstDocMatch(entity.identity_documents, normalized, doc_type, TRUE)
    IN  IF Truthy(byDoc) THEN byDoc
        ELSE IF Truthy(entity.vesselIMO)
                  /\ NormalizeDocument(entity.vesselIMO) = normalized
             THEN entity.vesselIMO
             ELSE None

Layer1Result(ref, entity, matched_doc) ==
    [ref |-> ref, overall |-> Rat(100, 1), name_score |-> Rat(100, 1),
     document_score |-> 100, dob_score |-> 0,
     flags |-> <<"DOCUMENT_EXACT_MATCH">>, recommendation |-> "AUTO_ESCALATE",
     match_layer |-> 1, matched_name |-> entity.name,
     matched_document |-> matched_doc]

RECURSIVE Layer1Results(_, _, _, _)
Layer1Results(ents, refs, normalized, doc_type) ==
    IF refs = << >> THEN << >>
    ELSE LET entity == ents[Head(refs)]
             matched_doc == VerifiedDocument(entity, normalized, doc_type)
         IN  (IF Truthy(matched_doc)
              THEN <<Layer1Result(Head(refs), entity, matched_doc)>>
              ELSE << >>)
             \o Layer1Results(ents, Tail(refs), normalized, doc_type)

\* EnhancedSanctionsScreener.search_by_document
SearchByDocument(ents, idx, doc_number, doc_type) ==
    LET normalized == NormalizeDocument(doc_number)
    IN  IF normalized \in DOMAIN idx
        THEN Layer1Results(ents, idx[normalized], normalized, doc_type)
        ELSE << >>

\* overall = name*w_name + doc*w_document + dob*w_dob, clamped to [0, 100]
OverallScore(name_score, doc_score, dob_score, weights) ==
    LET num == name_score.num * weights.name
                 + (doc_score * weights.document + dob_score * weights.dob)
                     * name_score.den
        den == 100 * name_score.den
    IN  IF num > 100 * den THEN Rat(100 * den, den)
        ELSE IF num < 0 THEN Rat(0, den)
        ELSE Rat(num, den)

\* "Determine layer"
MatchLayer(name_score, doc_score, dob_score, nat_flag, layers) ==
    IF doc_score = 100 THEN 1
    ELSE IF RatGE(name_score, layers.high_confidence)
         THEN (IF Truthy(nat_flag) \/ dob_score >= 60 THEN 2 ELSE 3)
    ELSE IF RatGE(name_score, layers.moderate_match) THEN 3
    ELSE 4

\* the bands with strict comparisons
RecommendationAbove(overall, thresholds) ==
    IF RatGT(overall, Rat(thresholds.auto_escalate, 1)) THEN "AUTO_ESCALATE"
    ELSE IF RatGT(overall, Rat(thresholds.manual_review, 1)) THEN "MANUAL_REVIEW"
    ELSE IF RatGT(overall, Rat(thresholds.auto_clear, 1)) THEN "LOW_CONFIDENCE_REVIEW"
    ELSE "AUTO_CLEAR"

\* "Determine recommendation" from the overall score
RecommendationFor(overall, thresholds) ==
    IF RatGE(overall, thresholds.auto_escalate) THEN "AUTO_ESCALATE"
    ELSE IF RatGE(overall, thresholds.manual_review) THEN "MANUAL_REVIEW"
    ELSE IF RatGE(overall, thresholds.auto_clear) THEN "LOW_CONFIDENCE_REVIEW"
    ELSE "AUTO_CLEAR"

\* the recommendation left as computed from the score
CommonNameRuleKeep(recommendation, is_common, doc_score) == recommendation

\* "For common names, always require review unless document matches"
CommonNameRule(recommendation, is_common, doc_score) ==
    IF is_common /\ doc_score = 0 /\ recommendation = "AUTO_ESCALATE"
    THEN "MANUAL_REVIEW"
    ELSE recommendation

AdaptiveFlag(reason) ==
    CASE reason = "latin_initials" -> <<"ADAPTIVE_THRESHOLD_LATIN_INITIALS">>
      [] reason = "chinese_name" -> <<"ADAPTIVE_THRESHOLD_CHINESE_NAME">>
      [] reason = "arabic_name" -> <<"ADAPTIVE_THRESHOLD_ARABIC_NAME">>
      [] reason = "cyrillic_name" -> <<"ADAPTIVE_THRESHOLD_CYRILLIC_NAME">>
      [] OTHER -> << >>

\* the flags list, in the order search appends to it
MatchFlags(input, entity, doc_score, nat_flag, is_short, is_common, reason) ==
    (IF doc_score = 100 THEN <<"DOCUMENT_MATCH">> ELSE << >>)
    \o (IF is_short THEN <<"SHORT_NAME_QUERY">> \o AdaptiveFlag(reason) ELSE << >>)
    \o (IF is_common THEN <<"COMMON_NAME">> ELSE << >>)
    \o (IF Truthy(nat_flag) THEN nat_flag ELSE << >>)
    \o (IF doc_score = 0 /\ Truthy(input.document_number)
        THEN <<"NO_DOCUMENT_MATCH">> ELSE << >>)
    \o (IF entity.type = "entity" THEN <<"ENTITY_MATCH">> ELSE << >>)
    \o (IF is_common /\ doc_score = 0
        THEN <<"COMMON_NAME_REQUIRES_SECONDARY_VALIDATION">> ELSE << >>)

\* admission by the overall score alone
MeetsThresholdScoreOnly(overall, doc_score, base_threshold) ==
    RatGE(overall, base_threshold)

\* "Check if meets threshold"
MeetsThreshold(overall, doc_score, base_threshold) ==
    RatGE(overall, base_threshold) \/ doc_score = 100

\* the MatchResult built from the scores of one entity
MatchResultOf(input, cfg, entity, ref, best, matched_doc, dob_score, nat_flag, base) ==
    LET doc_score == IF matched_doc # None THEN 100 ELSE 0
        is_short == IsShortName(input.name)
        is_common == IsCommonName(input.name, cfg)
    IN  [ref |-> ref,
         overall |-> OverallScore(best.score, doc_score, dob_score,
                                  cfg.matching.weights),
         name_score |-> best.score,
         document_score |-> doc_score, dob_score |-> dob_score,
         flags |-> MatchFlags(input, entity, doc_score, nat_flag,
                              is_short, is_common, base.reason),
         recommendation |->
             CommonNameRule(
                 RecommendationFor(OverallScore(best.score, doc_score, dob_score,
                                                cfg.matching.weights),
                                   cfg.reporting),
                 is_common, doc_score),
         match_layer |-> MatchLayer(best.score, doc_score, dob_score,
                                    nat_flag, cfg.matching.layers),
         matched_name |-> best.name,
         matched_document |-> matched_doc]

\* the MatchResult the loop of search builds for one entity: scores, layer,
\* flags and recommendation, before the low_match skip and the threshold check
Candidate(input, cfg, entity, ref) ==
    MatchResultOf(
        input, cfg, entity, ref,
        BestName(NormalizeName(input.name), entity),
        IF Truthy(input.document_number)
        THEN FirstDocMatch(entity.identity_documents,
                           NormalizeDocument(input.document_number), None, FALSE)
        ELSE None,
        IF Truthy(input.date_of_birth) /\ Truthy(entity.dateOfBirth)
        THEN CalculateDobScore(input.date_of_birth, entity.dateOfBirth)
        ELSE 0,
        NationalityFlag(input, entity),
        BaseThreshold(input, cfg))

\* `if best_name_score < layers['low_match']: continue`
BelowLowMatch(name_score, cfg) == RatLT(name_score, cfg.matching.layers.low_match)

\* the low_match skip and the threshold check on the MatchResult c: << >> when
\* the entity is dropped, else <<c>>
Admit(c, cfg, base_threshold) ==
    IF BelowLowMatch(c.name_score, cfg) THEN << >>
    ELSE IF ~MeetsThreshold(c.overall, c.document_score, base_threshold) THEN << >>
    ELSE <<c>>

\* the body of the loop of search for one entity that is not skipped by
\* seen_entity_ids
ScoreEntity(input, cfg, entity, ref) ==
    Admit(Candidate(input, cfg, entity, ref), cfg, BaseThreshold(input, cfg).threshold)

\* `if entity['id'] in seen_entity_ids: continue`
SkippedAsSeen(entity, seen_entity_ids) == entity.id \in seen_entity_ids

RECURSIVE NameLayers(_, _, _, _, _)
\* the loop `for entity in self.entities` from position ref on
NameLayers(input, cfg, ents, seen_entity_ids, ref) ==
    IF ref > Len(ents) THEN << >>
    ELSE (IF SkippedAsSeen(ents[ref], seen_entity_ids) THEN << >>
          ELSE ScoreEntity(input, cfg, ents[ref], ref))
         \o NameLayers(input, cfg, ents, seen_entity_ids, ref + 1)

RECURSIVE InsertDesc(_, _)
InsertDesc(r, sorted) ==
    IF sorted = << >> THEN <<r>>
    ELSE IF RatGT(r.overall, Head(sorted).overall) THEN <<r>> \o sorted
    ELSE <<Head(sorted)>> \o InsertDesc(r, Tail(sorted))

RECURSIVE SortInto(_, _)
SortInto(rs, acc) ==
    IF rs = << >> THEN acc ELSE SortInto(Tail(rs), InsertDesc(Head(rs), acc))

\* the list left in the order it was built
SortByConfidenceUnsorted(rs) == rs

\* results.sort(key=lambda x: x.confidence.overall, reverse=True): stable
SortByConfidence(rs) == SortInto(rs, << >>)

\* results[:limit]
Truncate(rs, limit) ==
    IF limit >= 0 THEN SubSeq(rs, 1, Min(limit, Len(rs)))
    ELSE SubSeq(rs, 1, Max(0, Len(rs) + limit))

\* the steps of one search call that reached matching, in order
MatchingTrace(input, ents, seen_entity_ids, query_norm) ==
    (IF Truthy(input.document_number) THEN <<"search_by_document">> ELSE << >>)
    \o (IF query_norm = << >> THEN << >>
        ELSE [i \in 1..Cardinality({r \in DOMAIN ents :
                                      ~SkippedAsSeen(ents[r], seen_entity_ids)})
                 |-> "score_entity"]
             \o <<"sort">>)

\* the ids of the entities matched in layer 1
SeenEntityIds(ents, doc_matches) == {ents[r.ref].id : r \in Range(doc_matches)}

\* the list returned, the list before `[:limit]` and the steps performed, given
\* the layer-1 matches and the sorted list of all matches
SearchOutcome(input, limit, ents, doc_matches, query_norm, sorted) ==
    IF query_norm = << >>
    THEN [error |-> NoError, results |-> doc_matches, unlimited |-> doc_matches,
          trace |-> MatchingTrace(input, ents, SeenEntityIds(ents, doc_matches),
                                  query_norm)]
    ELSE [error |-> NoError, results |-> Truncate(sorted, limit),
          unlimited |-> sorted,
          trace |-> MatchingTrace(input, ents, SeenEntityIds(ents, doc_matches),
                                  query_norm)]

\* the name layers after layer 1, sorted with the layer-1 matches
AllMatchesSorted(input, cfg, ents, doc_matches) ==
    SortByConfidence(
        doc_matches
            \o NameLayers(input, cfg, ents, SeenEntityIds(ents, doc_matches), 1))

\* search from layer 1 on, given the layer-1 matches
SearchFrom(input, limit, cfg, ents, doc_matches) ==
    SearchOutcome(input, limit, ents, doc_matches, NormalizeName(input.name),
                  AllMatchesSorted(input, cfg, ents, doc_matches))

\* search after validation
SearchBody(input, limit, cfg, ents, idx) ==
    SearchFrom(input, limit, cfg, ents,
               IF Truthy(input.document_number)
               THEN SearchByDocument(ents, idx, input.document_number,
                                     input.document_type)
               ELSE << >>)

\* the result of a search that did the matching work (body) before validating
RaiseAfter(err, body) ==
    IF err.code # "OK"
    THEN [error |-> err, trace |-> body.trace \o <<"validate">>]
    ELSE [body EXCEPT !.trace = @ \o <<"validate">>]

\* a search that does the matching work first and validates afterwards
SearchLookupFirst(input, limit, cfg, ents, idx) ==
    RaiseAfter(ValidateScreeningInput(input, cfg),
               SearchBody(input, limit, cfg, ents, idx))

\* EnhancedSanctionsScreener.search: the error raised, or the list returned (with
\* the list before `[:limit]`), and the steps performed
Search(input, limit, cfg, ents, idx) ==
    IF ValidateScreeningInput(input, cfg).code # "OK"
    THEN [error |-> ValidateScreeningInput(input, cfg), trace |-> <<"validate">>]
    ELSE [SearchBody(input, limit, cfg, ents, idx) EXCEPT !.trace = <<"validate">> \o @]

\* round(x, 2), in hundredths
Round2(r) ==
    LET q == (100 * r.num) \div r.den
        rem == (100 * r.num) % r.den
    IN  IF 2 * rem > r.den THEN q + 1
        ELSE IF 2 * rem = r.den THEN q + (q % 2)
        ELSE q

\* MatchResult.to_dict: the confidence values rounded to two decimals
ToDict(m) ==
    [ref |-> m.ref,
     confidence |-> [overall |-> Round2(m.overall), name |-> Round2(m.name_score),
                     document |-> 100 * m.document_score, dob |-> 100 * m.dob_score],
     flags |-> m.flags, recommendation |-> m.recommendation,
     match_layer |-> m.match_layer, matched_name |-> m.matched_name,
     matched_document |-> m.matched_document]

DEFAULT_LIMIT == 10
MAX_HISTORY_SIZE == 10000

\* a history that keeps the oldest entries: once full, a new result is dropped
AppendBoundedKeepOldest(hist, result, max) ==
    IF Len(hist) >= max THEN hist ELSE Append(hist, result)

\* screening_history after screen_individual appended `result`, on a screener
\* whose _max_history_size is max
AppendBounded(hist, result, max) ==
    LET h == Append(hist, result)
    IN  IF Len(h) > max THEN SubSeq(h, Len(h) - max + 1, Len(h)) ELSE h

\* the same with the _max_history_size __init__ sets
AppendHistory(hist, result) == AppendBounded(hist, result, MAX_HISTORY_SIZE)

\* a result dict that lists the best match only
ResponseOfBestOnly(input, found) ==
    IF found.error.code # "OK"
    THEN [error |-> found.error, trace |-> found.trace]
    ELSE [error |-> NoError, trace |-> found.trace,
          input |-> input,
          is_hit |-> Len(found.results) > 0,
          hit_count |-> Len(found.results),
          matches |-> << >> \o [i \in DOMAIN found.results \cap {1} |->
                                  ToDict(found.results[i])]]

\* the result dict screen_individual builds from what search gave
ResponseOf(input, found) ==
    IF found.error.code # "OK"
    THEN [error |-> found.error, trace |-> found.trace]
    ELSE [error |-> NoError, trace |-> found.trace,
          input |-> input,
          is_hit |-> Len(found.results) > 0,
          hit_count |-> Len(found.results),
          matches |-> [i \in DOMAIN found.results |-> ToDict(found.results[i])]]

\* EnhancedSanctionsScreener.screen_individual (generate_report = False): the
\* error raised by search, or the result dict
ScreenIndividualResult(input, cfg, ents, idx) ==
    ResponseOf(input, Search(input, DEFAULT_LIMIT, cfg, ents, idx))

\* _transform_match_to_response: a MatchDetail from a match dict
TransformMatchToResponse(m) ==
    [ref |-> m.ref, confidence |-> m.confidence, flags |-> m.flags,
     recommendation |-> m.recommendation, match_layer |-> m.match_layer,
     matched_name |-> m.matched_name, matched_document |-> m.matched_document]

\* the ScreeningResponse the /api/v1/screen endpoint builds from the result
ApiResponse(result) ==
    [is_hit |-> result.is_hit,
     hit_count |-> result.hit_count,
     matches |-> << >> \o [i \in DOMAIN result.matches |->
                             TransformMatchToResponse(result.matches[i])]]

(***************************************************************************)
(* Bounds and the values the scenarios draw from                           *)
(***************************************************************************)
MaxEntities == 2
MaxFileLen == 2

SeqsUpTo(S, n) == UNION {[1..k -> S] : k \in 1..n}

Str_abe_ceo_bob == <<"a", "b", "e", " ", "c", "e", "o", " ", "b", "o", "b">>
Str_abE_ceo_bob == <<"a", "b", "e_acute", " ", "C", "e", "o", " ", "b", "o", "b">>
Str_abe_ceo_boc == <<"a", "b", "e", " ", "c", "e", "o", " ", "b", "o", "c">>
Str_abe_ceo == <<"a", "b", "e", " ", "c", "e", "o">>
Str_li_ming == <<"LI", "MING">>
Str_oo == <<"o", "o">>
Str_dashes == <<"-", "-">>
Str_blocked == <<"a", "<", "b">>

DocAB1 == <<"A", "B", "-", "1">>
Doc_ab1 == <<"a", "b", " ", "1">>
Doc99 == <<"9", "9">>
TypePassport == <<"a", "b">>
TypePassportCaps == <<"A", "B">>
TypeId == <<"c">>
Dob1960 == <<"1", "9", "6", "0">>
Dob1961 == <<"1", "9", "6", "1", "-", "0", "5">>
Dob1965 == <<"1", "9", "6", "5">>
CountryCoba == <<"c", "o", "b", "a">>

\* <entity> elements of an OFAC file
OfacIndividual ==
    [id |-> <<"1">>, entityType |-> "Individual",
     names |-> <<Str_abe_ceo_bob, Str_abe_ceo_bob>>,
     documents |-> <<[type |-> TypePassport, number |-> DocAB1],
                     [type |-> TypeId, number |-> Doc_ab1]>>,
     features |-> <<[type |-> "Birthdate", value |-> Dob1960]>>]

OfacEntity ==
    [id |-> <<"2">>, entityType |-> "Entity",
     names |-> <<Str_oo>>,
     documents |-> <<[type |-> TypeId, number |-> Doc_ab1],
                     [type |-> None, number |-> None]>>,
     features |-> << >>]

OfacVessel ==
    [id |-> <<"3">>, entityType |-> "Vessel",
     names |-> <<Str_li_ming, Str_abe_ceo_boc>>,
     documents |-> << >>,
     features |-> <<[type |-> "IMO Number", value |-> DocAB1]>>]

\* an <entity> without an id attribute
OfacMalformed ==
    [id |-> None, entityType |-> "Individual",
     names |-> <<Str_abe_ceo>>, documents |-> << >>, features |-> << >>]

OfacElements == {OfacIndividual, OfacEntity, OfacVessel, OfacMalformed}

\* <INDIVIDUAL> and <ENTITY> elements of a UN file
UnIndividual ==
    [kind |-> "INDIVIDUAL", id |-> <<"1">>,
     names |-> <<<<"a", "b", "e">>, <<"c", "e", "o">>, << >>, <<"b", "o", "b">>>>,
     aliases |-> << >>, dob |-> Dob1965, nationality |-> CountryCoba,
     documents |-> << >>]

UnEntity ==
    [kind |-> "ENTITY", id |-> <<"2">>,
     names |-> <<Str_abe_ceo>>, aliases |-> <<Str_li_ming>>,
     dob |-> None, nationality |-> None, documents |-> << >>]

UnNameless ==
    [kind |-> "ENTITY", id |-> <<"7">>,
     names |-> << >>, aliases |-> << >>,
     dob |-> None, nationality |-> None, documents |-> << >>]

UnElements == {UnIndividual, UnEntity, UnNameless}

\* a configuration that scores on the name alone and lists a common name
NameWeightedConfig ==
    [DefaultConfig EXCEPT !.matching.weights = [name |-> 100, document |-> 30, dob |-> 15],
                          !.matching.common_names = {Str_abe_ceo_bob}]

SearchConfigs == {DefaultConfig, NameWeightedConfig}

MkInput(n, d, t, b, c) ==
    [name |-> n, document_number |-> d, document_type |-> t,
     date_of_birth |-> b, nationality |-> None, country |-> c]

SearchInputs ==
    {MkInput(n, None, None, b, None) :
        n \in {Str_abE_ceo_bob, Str_abe_ceo_boc, Str_abe_ceo, Str_li_ming},
        b \in {None, Dob1960, Dob1961}}
    \cup {MkInput(n, Doc_ab1, t, None, None) :
        n \in {Str_abE_ceo_bob, Str_oo, Str_dashes},
        t \in {None, TypePassportCaps, TypeId}}
    \cup {MkInput(Str_abe_ceo_boc, Doc99, None, Dob1960, CountryCoba),
          MkInput(Str_abE_ceo_bob, None, None, None, CountryCoba),
          MkInput(Str_blocked, Doc_ab1, None, None, None),
          MkInput(<<"a">>, None, None, None, None)}

SearchLimits == {1, DEFAULT_LIMIT}

NoInput == MkInput(None, None, None, None, None)
NoOutcome == [error |-> NoError]
NoServer == [pc |-> << >>]
NoBulk == [pc |-> "idle"]

(***************************************************************************)
(* One screener: files are loaded, then one search or screening is served  *)
(***************************************************************************)
InitSearch ==
    /\ config \in SearchConfigs
    /\ entities = << >>
    /\ docIndex = EmptyIndex
    /\ history = << >>
    /\ phase = "load"
    /\ lastInput = NoInput
    /\ lastLimit = 0
    /\ outcome = NoOutcome
    /\ trace = << >>
    /\ server = NoServer
    /\ bulk = NoBulk
    /\ calls = << >>
    /\ build = StdlibOnly

LoadFile(file, parse) ==
    LET cur == [entities |-> entities, docIndex |-> docIndex]
        st == IF parse = "OFAC" THEN LoadOfacFile(cur, file) ELSE LoadUnFile(cur, file)
    IN  /\ phase = "load"
        /\ Len(st.entities) <= MaxEntities
        /\ entities' = st.entities
        /\ docIndex' = st.docIndex
        /\ UNCHANGED <<build, bulk, calls, config, history, phase, lastInput, lastLimit, outcome,
                       trace, server>>

\* EnhancedSanctionsScreener.load_ofac
LoadOfac == \E file \in SeqsUpTo(OfacElements, MaxFileLen) : LoadFile(file, "OFAC")

\* EnhancedSanctionsScreener.load_un
LoadUn == \E file \in SeqsUpTo(UnElements, MaxFileLen) : LoadFile(file, "UN")

\* a call of search(input_data, limit)
SearchCall ==
    /\ phase = "load"
    /\ \E input \in SearchInputs, limit \in SearchLimits :
        \E r \in {Search(input, limit, config, entities, docIndex)} :
            /\ phase' = "searched"
            /\ lastInput' = input
            /\ lastLimit' = limit
            /\ outcome' = [f \in DOMAIN r \ {"trace"} |-> r[f]]
            /\ trace' = r.trace
            /\ UNCHANGED <<build, bulk, calls, config, entities, docIndex, history, server>>

\* a call of screen_individual(...)
ScreenIndividual ==
    /\ phase = "load"
    /\ \E input \in SearchInputs :
        \E r \in {ScreenIndividualResult(input, config, entities, docIndex)} :
            /\ phase' = "screened"
            /\ lastInput' = input
            /\ lastLimit' = DEFAULT_LIMIT
            /\ outcome' = [f \in DOMAIN r \ {"trace"} |-> r[f]]
            /\ trace' = r.trace
            /\ history' = IF r.error.code = "OK" THEN AppendHistory(history, r)
                          ELSE history
            /\ calls' = IF r.error.code = "OK" THEN Append(calls, r) ELSE calls
            /\ UNCHANGED <<build, bulk, config, entities, docIndex, server>>

NextSearch == LoadOfac \/ LoadUn \/ SearchCall \/ ScreenIndividual

SpecSearch == InitSearch /\ [][NextSearch]_vars

(***************************************************************************)
(* validate_screening_input on its own, under several configurations       *)
(***************************************************************************)
\* allow_unicode_names: false ("strict Latin-only mode")
LatinConfig == [DefaultConfig EXCEPT !.input_validation.allow_unicode_names = FALSE]

\* short length limits, so that the upper limits are within reach
TightConfig ==
    [DefaultConfig EXCEPT !.input_validation.name_max_length = 4,
                          !.input_validation.document_max_length = 3]

TightLatinConfig ==
    [TightConfig EXCEPT !.input_validation.allow_unicode_names = FALSE]

ValidateConfigs == {DefaultConfig, LatinConfig, TightConfig, TightLatinConfig}

ValidateNames ==
    { <<"a", "b">>, <<"a">>, <<" ", "a", " ">>, <<"<">>, Str_blocked,
      <<"a", "NUL", "b">>, <<"a", "LF", "b">>, <<"a", "<", "NUL", "b", "c">>,
      <<"a", "b", "c", "e", "o">>, Str_li_ming, <<"a", "5">>, <<"a", "ZWSP", ";">>,
      <<"ZHE", "ALEF", "-", "e_acute">>, None }

ValidateDobs ==
    { None, Dob1960, Dob1961, <<"1", "9", "-", "6", "0">>, <<"1", "9", "6", "0", "LF">> }

ValidateDocs ==
    { None, DocAB1, <<"A", "/", "1">>, <<"A", "B", "/", "1">>, <<"9", ".", "a">> }

ValidateInputs ==
    {MkInput(n, d, None, b, None) :
        n \in ValidateNames, d \in ValidateDocs, b \in ValidateDobs}

InitValidate ==
    /\ config \in ValidateConfigs
    /\ entities = << >>
    /\ docIndex = EmptyIndex
    /\ history = << >>
    /\ phase = "idle"
    /\ lastInput = NoInput
    /\ lastLimit = 0
    /\ outcome = NoOutcome
    /\ trace = << >>
    /\ server = NoServer
    /\ bulk = NoBulk
    /\ calls = << >>
    /\ build = StdlibOnly

\* a call of validate_screening_input(input_data, config)
ValidateCall ==
    /\ phase = "idle"
    /\ \E input \in ValidateInputs :
        /\ lastInput' = input
        /\ outcome' = [error |-> ValidateScreeningInput(input, config)]
        /\ trace' = ValidationLog(input, config)
        /\ phase' = "validated"
        /\ UNCHANGED <<build, bulk, calls, config, entities, docIndex, history, lastLimit,
                       server>>

NextValidate == ValidateCall

SpecValidate == InitValidate /\ [][NextValidate]_vars

\* The checks of the validation table, each on its own.  Check 5 is read as
\* the code's NAME_PATTERN.
CheckFails(k, input, cfg) ==
    LET iv == cfg.input_validation
        name == NameOf(input)
        doc == input.document_number
    IN  CASE k = 1 -> Len(Strip(name)) < iv.name_min_length
          [] k = 2 -> Len(name) > iv.name_max_length
          [] k = 3 -> \E i \in DOMAIN name : name[i] \in iv.blocked_characters
          [] k = 4 -> \E i \in DOMAIN name : name[i] \in ControlChars
          [] k = 5 -> ~iv.allow_unicode_names /\ ~MatchesNamePattern(name)
          [] k = 6 -> /\ Truthy(input.date_of_birth)
                      /\ ~MatchesDobPattern(input.date_of_birth)
          [] k = 7 -> /\ Truthy(doc)
                      /\ (Len(doc) > iv.document_max_length \/ ~MatchesDocPattern(doc))

FailingChecks(input, cfg) == {k \in 1..7 : CheckFails(k, input, cfg)}

LowestOf(S) == CHOOSE k \in S : \A j \in S : k <= j

CheckCodes(k) ==
    CASE k = 1 -> {"NAME_TOO_SHORT"}
      [] k = 2 -> {"NAME_TOO_LONG"}
      [] k = 3 -> {"BLOCKED_CHARACTERS"}
      [] k = 4 -> {"CONTROL_CHARACTER"}
      [] k = 5 -> {"INVALID_FORMAT"}
      [] k = 6 -> {"INVALID_DOB_FORMAT"}
      [] k = 7 -> {"DOCUMENT_TOO_LONG", "INVALID_DOCUMENT_FORMAT"}

CheckField(k) ==
    IF k <= 5 THEN "name" ELSE IF k = 6 THEN "date_of_birth" ELSE "document_number"

\* C5 (validation ordering): an input that fails more than one check of the
\* validation table is rejected, under every configuration, with the code and
\* field of the lowest-numbered failing check.
C5_ValidationOrdering ==
    (phase = "validated" /\ Cardinality(FailingChecks(lastInput, config)) > 1)
        => LET k == LowestOf(FailingChecks(lastInput, config))
           IN  /\ outcome.error.code \in CheckCodes(k)
               /\ outcome.error.field = CheckField(k)

\* C5 restricted to configurations that allow Unicode names: there the order of
\* the table is the order of the code.
C5_OrderingWithUnicodeNames ==
    (/\ phase = "validated"
     /\ config.input_validation.allow_unicode_names
     /\ FailingChecks(lastInput, config) # {})
        => LET k == LowestOf(FailingChecks(lastInput, config))
           IN  /\ outcome.error.code \in CheckCodes(k)
               /\ outcome.error.field = CheckField(k)

(***************************************************************************)
(* Properties of search and screen_individual                              *)
(***************************************************************************)
\* a search or a screening was served and returned normally
Served == phase \in {"searched", "screened"} /\ outcome.error.code = "OK"

LastKey == NormalizeDocument(lastInput.document_number)

\* entity number i is in the returned matches with layer 1 and overall 100
ListedAtLayer1(i) ==
    IF phase = "searched"
    THEN \E k \in DOMAIN outcome.results :
            /\ outcome.results[k].ref = i
            /\ outcome.results[k].match_layer = 1
            /\ RatEQ(outcome.results[k].overall, Rat(100, 1))
    ELSE \E k \in DOMAIN outcome.matches :
            /\ outcome.matches[k].ref = i
            /\ outcome.matches[k].match_layer = 1
            /\ outcome.matches[k].confidence.overall = 100 * 100

\* the entity holds the number `key`, under the type asked for if one is given,
\* or as its vessel IMO
DocumentVerifies(entity, key, doc_type) ==
    \/ \E k \in DOMAIN entity.identity_documents :
          /\ NormalizeDocument(entity.identity_documents[k].number) = key
          /\ \/ doc_type = None
             \/ UpperStr(entity.identity_documents[k].type) = UpperStr(doc_type)
    \/ Truthy(entity.vesselIMO) /\ NormalizeDocument(entity.vesselIMO) = key

ApplicableThreshold == BaseThreshold(lastInput, config).threshold

\* the positions of the entities matched by document in layer 1
Layer1Refs ==
    {outcome.unlimited[k].ref : k \in
        {j \in DOMAIN outcome.unlimited :
            "DOCUMENT_EXACT_MATCH" \in Range(outcome.unlimited[j].flags)}}

IncludedUnlimited(i) == \E k \in DOMAIN outcome.unlimited : outcome.unlimited[k].ref = i

\* the confidence of section 4.9 for entity i meets the admission rule
Admissible(i) ==
    LET c == CHOOSE x \in {Candidate(lastInput, config, entities[i], i)} : TRUE
    IN  RatGE(c.overall, ApplicableThreshold) \/ c.document_score = 100

\* the name layers reach the admission check for entity i
ReachesAdmission(i) ==
    /\ NormalizeName(lastInput.name) # << >>
    /\ entities[i].id \notin {entities[j].id : j \in Layer1Refs}
    /\ ~BelowLowMatch(Candidate(lastInput, config, entities[i], i).name_score, config)

C6_ValidationPrecedesMatching ==
    (/\ phase \in {"searched", "screened"}
     /\ ValidateScreeningInput(lastInput, config).code # "OK")
        => /\ outcome.error = ValidateScreeningInput(lastInput, config)
           /\ trace = <<"validate">>
           /\ DOMAIN outcome = {"error"}
           /\ history = << >>

\* validation also comes first when it passes
C6_ValidatedFirst ==
    phase \in {"searched", "screened"} => trace # << >> /\ trace[1] = "validate"

\* a rejected input whose document number is a key of the loaded index
C6_Witness ==
    /\ phase = "screened"
    /\ outcome.error.code = "BLOCKED_CHARACTERS"
    /\ LastKey \in DOMAIN docIndex
    /\ trace = <<"validate">>

\* the matches served, as [overall, document, flags, recommendation, ...] of
\* the list of search or of the response of screen_individual
ServedMatches ==
    IF phase = "searched"
    THEN [k \in DOMAIN outcome.results |->
            [ref |-> outcome.results[k].ref,
             overall |-> outcome.results[k].overall,
             document |-> outcome.results[k].document_score,
             flags |-> outcome.results[k].flags,
             recommendation |-> outcome.results[k].recommendation]]
    ELSE [k \in DOMAIN outcome.matches |->
            [ref |-> outcome.matches[k].ref,
             overall |-> Rat(outcome.matches[k].confidence.overall, 100),
             document |-> outcome.matches[k].confidence.document \div 100,
             flags |-> outcome.matches[k].flags,
             recommendation |-> outcome.matches[k].recommendation]]

InputNameIsCommon ==
    NormalizeName(lastInput.name)
        \in {NormalizeName(n) : n \in config.matching.common_names}

\* C7 (common-name downgrade): when the normalized input name is in the
\* configured common-names set, every returned match without a document match
\* carries COMMON_NAME_REQUIRES_SECONDARY_VALIDATION and is not AUTO_ESCALATE.
C7_CommonNameDowngrade ==
    (Served /\ InputNameIsCommon)
        => \A k \in DOMAIN ServedMatches :
              ServedMatches[k].document # 100
                 => /\ "COMMON_NAME_REQUIRES_SECONDARY_VALIDATION"
                           \in Range(ServedMatches[k].flags)
                    /\ ServedMatches[k].recommendation # "AUTO_ESCALATE"

\* a common-name match whose score alone would escalate, served as MANUAL_REVIEW
C7_Witness ==
    /\ Served /\ InputNameIsCommon
    /\ \E k \in DOMAIN ServedMatches :
          /\ ServedMatches[k].document = 0
          /\ RatGE(ServedMatches[k].overall, config.reporting.auto_escalate)
          /\ ServedMatches[k].recommendation = "MANUAL_REVIEW"
          /\ "COMMON_NAME_REQUIRES_SECONDARY_VALIDATION"
                \in Range(ServedMatches[k].flags)

\* C8 (sort law): the list returned by search and the matches of every
\* response of screen_individual are ordered by overall confidence, descending.
C8_SortLaw ==
    Served
        => \A i, j \in DOMAIN ServedMatches :
              i < j => RatGEQ(ServedMatches[i].overall, ServedMatches[j].overall)

\* two name-layer matches served in the reverse of the order they were found
C8_Witness ==
    /\ Served
    /\ \E i, j \in DOMAIN ServedMatches :
          /\ i < j
          /\ ServedMatches[i].ref > ServedMatches[j].ref
          /\ RatGT(ServedMatches[i].overall, ServedMatches[j].overall)
          /\ ServedMatches[i].document = 0

\* some name of entity i normalizes to exactly the normalized input name
HasExactName(i) ==
    /\ NormalizeName(lastInput.name) # << >>
    /\ \E k \in DOMAIN entities[i].all_names :
          NormalizeName(entities[i].all_names[k]) = NormalizeName(lastInput.name)

NameOnlyInput ==
    /\ lastInput.document_number = None /\ lastInput.document_type = None
    /\ lastInput.date_of_birth = None
    /\ lastInput.nationality = None /\ lastInput.country = None

\* C9 (exact name is a hit): with the default configuration and an input that
\* carries only a name, if an entity has a name that normalizes to the
\* normalized input name, screening reports is_hit with such an entity first,
\* name confidence 100, match_layer <= 3 and MANUAL_REVIEW or AUTO_ESCALATE.
C9_ExactNameIsHit ==
    (/\ phase = "screened" /\ outcome.error.code = "OK"
     /\ config = DefaultConfig
     /\ NameOnlyInput
     /\ \E i \in DOMAIN entities : HasExactName(i))
        => /\ outcome.is_hit
           /\ outcome.matches # << >>
           /\ HasExactName(outcome.matches[1].ref)
           /\ outcome.matches[1].confidence.name = 100 * 100
           /\ outcome.matches[1].match_layer <= 3
           /\ outcome.matches[1].recommendation \in {"MANUAL_REVIEW", "AUTO_ESCALATE"}

(***************************************************************************)
(* The API server (api/server.py): screening requests and reloads that     *)
(* interleave at the awaits of update_data                                 *)
(***************************************************************************)
MaxReloads == 2
Reloaders == {1, 2}
Requests == {1, 2}
MALFORMED_ENTITY_THRESHOLD == 1

\* a file of the data directory: well-formed XML or not, and its elements
XmlFile(elems) == [ok |-> TRUE, elems |-> elems]
BrokenFile == [ok |-> FALSE, elems |-> << >>]

\* what a download brings: nothing (the request failed), or a new file
NotDownloaded == [got |-> FALSE, file |-> BrokenFile]
Downloaded(file) == [got |-> TRUE, file |-> file]

OfacDownloads ==
    {NotDownloaded, Downloaded(XmlFile(<<OfacEntity>>)),
     Downloaded(XmlFile(<<OfacVessel, OfacMalformed>>)), Downloaded(BrokenFile)}

\* the UN download brings a file (a download that fails is drawn for OFAC)
UnDownloads == {Downloaded(XmlFile(<<UnEntity>>))}

\* validate_ofac_xml: (malformed_count / entity_count) * 100 > threshold, the
\* threshold being a percentage
HighMalformationRate(elems, threshold) ==
    LET entity_count == Len(elems)
        malformed_count == Cardinality({i \in DOMAIN elems : ~Truthy(elems[i].id)})
    IN  /\ entity_count > 0
        /\ malformed_count * 100 > threshold * entity_count

\* validate_ofac_xml: whether it records an error
OfacValidationErrors(file) ==
    IF ~file.ok THEN TRUE
    ELSE HighMalformationRate(file.elems, MALFORMED_ENTITY_THRESHOLD)

\* download_and_parse_all: the data directory afterwards and validation.is_valid
DownloadAndParseAll(disk, ofacNet, unNet) ==
    [disk |-> [ofac |-> IF ofacNet.got THEN ofacNet.file ELSE disk.ofac,
               un |-> IF unNet.got THEN unNet.file ELSE disk.un],
     is_valid |-> ~(ofacNet.got /\ OfacValidationErrors(ofacNet.file))]

\* EnhancedSanctionsScreener(config, data_dir): nothing loaded yet; `ofac` and
\* `un` remember the files the object was loaded from
NewScreener ==
    [entities |-> << >>, docIndex |-> EmptyIndex, stage |-> "constructed",
     ofac |-> << >>, un |-> << >>, history_len |-> 0]

ScreenerLoadOfac(scr, file) ==
    LET st == LoadOfacFile([entities |-> scr.entities, docIndex |-> scr.docIndex],
                           file.elems)
    IN  [scr EXCEPT !.entities = st.entities, !.docIndex = st.docIndex,
                    !.stage = "ofac", !.ofac = file.elems]

ScreenerLoadUn(scr, file) ==
    LET st == LoadUnFile([entities |-> scr.entities, docIndex |-> scr.docIndex],
                         file.elems)
    IN  [scr EXCEPT !.entities = st.entities, !.docIndex = st.docIndex,
                    !.stage = "full", !.un = file.elems]

InitDisk == [ofac |-> XmlFile(<<OfacIndividual>>), un |-> XmlFile(<<UnIndividual>>)]

\* the screener that startup() leaves in _screener
StartupScreener == ScreenerLoadUn(ScreenerLoadOfac(NewScreener, InitDisk.ofac), InitDisk.un)

IdleReload ==
    [pc |-> "idle", is_valid |-> TRUE, new |-> 0, before |-> 0, after |-> 0,
     result |-> "none"]

NoSeen == [entities |-> << >>, docIndex |-> EmptyIndex]

\* a request: the screener it captured, the index its screening read, and the
\* value _screener had when the screening ran
IdleRequest ==
    [pc |-> "idle", ref |-> 0, seen |-> NoSeen, published |-> 0, hit_count |-> 0]

ProbeInput == MkInput(Str_abE_ceo_bob, Doc_ab1, None, None, None)

InitServer ==
    /\ config = DefaultConfig
    /\ entities = << >>
    /\ docIndex = EmptyIndex
    /\ history = << >>
    /\ phase = "serving"
    /\ lastInput = NoInput
    /\ lastLimit = 0
    /\ outcome = NoOutcome
    /\ trace = << >>
    /\ bulk = NoBulk
    /\ calls = << >>
    /\ build = StdlibOnly
    /\ server = [heap |-> <<StartupScreener>>, current |-> 1, served |-> {1},
                 lock |-> 0, disk |-> InitDisk, started |-> 0,
                 reload |-> [u \in Reloaders |-> IdleReload],
                 request |-> [q \in Requests |-> IdleRequest]]

ServerStep(next) ==
    /\ phase = "serving"
    /\ server' = next
    /\ UNCHANGED <<build, bulk, calls, config, entities, docIndex, history, phase, lastInput,
                   lastLimit, outcome, trace>>

\* a reload that starts its download without taking the lock
StartedUnlocked(srv, u) ==
    [srv EXCEPT !.reload[u] = [IdleReload EXCEPT !.pc = "download",
                                                 !.before = srv.current]]

\* the state with reloader u holding the lock and its download submitted
Acquired(srv, u) ==
    [srv EXCEPT !.lock = u,
                !.reload[u] = [IdleReload EXCEPT !.pc = "download",
                                                 !.before = srv.current]]

\* a lock that lets every caller in
LockIgnored(srv) == TRUE

\* asyncio.Lock: not locked
LockFree(srv) == srv.lock = 0

\* POST update_data arrives: `async with _screener_lock` is entered at once when
\* the lock is free, else the call waits for it
UpdateCall(u) ==
    /\ server.reload[u].pc = "idle"
    /\ server.started < MaxReloads
    /\ ServerStep(
         IF LockFree(server)
         THEN [Acquired(server, u) EXCEPT !.started = @ + 1]
         ELSE [server EXCEPT !.started = @ + 1,
                             !.reload[u] = [IdleReload EXCEPT !.pc = "waiting"]])

\* a waiting update_data obtains the lock
UpdateAcquire(u) ==
    /\ server.reload[u].pc = "waiting"
    /\ LockFree(server)
    /\ ServerStep(Acquired(server, u))

\* download_and_parse_all has returned: the new screener is constructed and
\* its load_ofac submitted
UpdateDownloaded(u) ==
    /\ server.reload[u].pc = "download"
    /\ \E ofacNet \in OfacDownloads, unNet \in UnDownloads :
          LET d == DownloadAndParseAll(server.disk, ofacNet, unNet)
          IN  ServerStep(
                [server EXCEPT !.disk = d.disk,
                               !.heap = Append(@, NewScreener),
                               !.reload[u].is_valid = d.is_valid,
                               !.reload[u].new = Len(server.heap) + 1,
                               !.reload[u].pc = "load_ofac"])

\* new_screener.load_ofac has run: it raised on a file that does not parse (the
\* handler answers 500 and the lock is released), or the OFAC entities are in
\* the new screener and load_un is submitted
UpdateOfacLoaded(u) ==
    /\ server.reload[u].pc = "load_ofac"
    /\ ServerStep(
         IF ~server.disk.ofac.ok
         THEN [server EXCEPT !.lock = 0,
                             !.reload[u].pc = "idle",
                             !.reload[u].result = "raised",
                             !.reload[u].after = server.current]
         ELSE [server EXCEPT
                 !.heap[server.reload[u].new] = ScreenerLoadOfac(@, server.disk.ofac),
                 !.reload[u].pc = "load_un"])

\* new_screener.load_un has run in the executor
UpdateUnLoaded(u) ==
    /\ server.reload[u].pc = "load_un"
    /\ ServerStep(
         [server EXCEPT
             !.heap[server.reload[u].new] = ScreenerLoadUn(@, server.disk.un),
             !.reload[u].pc = "swap"])

\* update_data resumes: `_screener = new_screener`, the lock is released and
\* the response says success = validation.is_valid
UpdateSwap(u) ==
    /\ server.reload[u].pc = "swap"
    /\ ServerStep(
         [server EXCEPT
             !.current = server.reload[u].new,
             !.served = @ \cup {server.reload[u].new},
             !.lock = 0,
             !.reload[u].pc = "idle",
             !.reload[u].after = server.reload[u].new,
             !.reload[u].result =
                 IF server.reload[u].is_valid THEN "success" ELSE "invalid"])

\* the screener a request would get if the object under construction were the
\* one published
GetScreenerNewest(srv) == Len(srv.heap)

\* get_screener: the current value of _screener
GetScreener(srv) == srv.current

\* a screening request resolves its dependency get_screener
RequestCapture(q) ==
    /\ server.request[q].pc = "idle"
    /\ ServerStep([server EXCEPT !.request[q].pc = "captured",
                                 !.request[q].ref = GetScreener(server)])

\* the endpoint body runs screener.screen_individual on the captured screener
RequestScreen(q) ==
    /\ server.request[q].pc = "captured"
    /\ LET scr == server.heap[server.request[q].ref]
           r == ScreenIndividualResult(ProbeInput, config, scr.entities, scr.docIndex)
       IN  ServerStep(
             [server EXCEPT
                 !.request[q].pc = "done",
                 !.request[q].seen = [entities |-> scr.entities,
                                      docIndex |-> scr.docIndex],
                 !.request[q].published = server.current,
                 !.request[q].hit_count = r.hit_count,
                 !.heap[server.request[q].ref].history_len = @ + 1])

NextServer ==
    \/ \E u \in Reloaders : UpdateCall(u)
    \/ \E u \in Reloaders : UpdateAcquire(u)
    \/ \E u \in Reloaders : UpdateDownloaded(u)
    \/ \E u \in Reloaders : UpdateOfacLoaded(u)
    \/ \E u \in Reloaders : UpdateUnLoaded(u)
    \/ \E u \in Reloaders : UpdateSwap(u)
    \/ \E q \in Requests : RequestCapture(q)
    \/ \E q \in Requests : RequestScreen(q)

SpecServer == InitServer /\ [][NextServer]_vars

(***************************************************************************)
(* Claims about reloads                                                    *)
(***************************************************************************)
\* the index a screener holds once load_ofac and load_un have run on the files
\* it was given
FullLoad(ofacElems, unElems) == LoadUnFile(LoadOfacFile(NoSeen, ofacElems), unElems)

\* C2 (reload atomicity): a request that has captured a screener holds one that
\* was published and is fully loaded; the index its screening read is exactly
\* the complete load of the two files that screener was built from, whatever
\* reload steps ran in between
C2_ReloadAtomicity ==
    phase = "serving" =>
        \A q \in Requests :
            LET rq == server.request[q]
            IN  rq.pc \in {"captured", "done"} =>
                    /\ rq.ref \in server.served
                    /\ server.heap[rq.ref].stage = "full"
                    /\ rq.pc = "done" =>
                          rq.seen = FullLoad(server.heap[rq.ref].ofac,
                                             server.heap[rq.ref].un)

\* a request captured its screener, a reload swapped in another one, and the
\* request then screened against the one it had captured
C2_Witness ==
    /\ phase = "serving"
    /\ \E q \in Requests :
          /\ server.request[q].pc = "done"
          /\ server.request[q].published # server.request[q].ref
          /\ server.request[q].seen
                # [entities |-> server.heap[server.request[q].published].entities,
                   docIndex |-> server.heap[server.request[q].published].docIndex]

\* C3 (failed reload keeps the old index): a reload that ended with
\* validation.is_valid false, or by raising, leaves in service the screener that
\* was in service when it began
C3_FailedReloadKeepsOldIndex ==
    phase = "serving" =>
        \A u \in Reloaders :
            server.reload[u].result \in {"invalid", "raised"} =>
                server.reload[u].after = server.reload[u].before

\* a reload that raised leaves in service the screener that was in service
\* when it began
C3_RaisedReloadKeepsOldIndex ==
    phase = "serving" =>
        \A u \in Reloaders :
            server.reload[u].result = "raised" =>
                server.reload[u].after = server.reload[u].before

(***************************************************************************)
(* bulk_screen: one call over the rows of a CSV file                       *)
(***************************************************************************)
MaxRows == 3

\* a row as csv.DictReader gives it; a field the line does not have is None
CsvRow(n, c, p) == [nombre |-> n, cedula |-> c, pais |-> p]

Doc_slash == <<"A", "/", "1">>

BulkRows ==
    {CsvRow(Str_abe_ceo_bob, << >>, << >>),
     CsvRow(Str_oo, Doc_ab1, CountryCoba),
     CsvRow(<<" ">>, Doc99, << >>),
     CsvRow(<<"a">>, << >>, << >>),
     CsvRow(Str_abe_ceo, Doc_slash, << >>),
     CsvRow(Str_li_ming, None, None)}

\* `row.get(...).strip()` on a field that is None
AttributeError == Err("ATTRIBUTE_ERROR", "row", FALSE)

\* the ScreeningInput screen_individual builds from what bulk_screen passes
RowInput(row) ==
    MkInput(Strip(row.nombre),
            IF Strip(row.cedula) # << >> THEN Strip(row.cedula) ELSE None,
            None, None,
            IF Strip(row.pais) # << >> THEN Strip(row.pais) ELSE None)

\* the loop body after screen_individual has returned r or raised r.error
BulkAfterRow(acc, idx, r) ==
    IF r.error.code # "OK"
    THEN [acc EXCEPT !.pc = "raised", !.error = r.error]
    ELSE [acc EXCEPT
            !.results = Append(@, [row |-> idx, is_hit |-> r.is_hit,
                                   hit_count |-> r.hit_count]),
            !.hits = IF r.is_hit THEN Append(@, idx) ELSE @,
            !.history = AppendHistory(@, r)]

RECURSIVE BulkLoop(_, _, _, _, _, _)
\* `for idx, row in enumerate(rows, 1)`: nothing catches what a row raises
BulkLoop(rows, idx, cfg, ents, idx_docs, acc) ==
    IF acc.pc = "raised" THEN acc
    ELSE IF idx > Len(rows) THEN [acc EXCEPT !.pc = "returned"]
    ELSE BulkLoop(
           rows, idx + 1, cfg, ents, idx_docs,
           IF rows[idx].cedula = None \/ rows[idx].pais = None
           THEN [acc EXCEPT !.pc = "raised", !.error = AttributeError]
           ELSE IF Strip(rows[idx].nombre) = << >> THEN acc
           ELSE BulkAfterRow(acc, idx,
                             ScreenIndividualResult(RowInput(rows[idx]), cfg, ents,
                                                    idx_docs)))

\* summary['screening_info']
BulkSummary(out) ==
    [total_screened |-> Len(out.results), total_hits |-> Len(out.hits)]

\* POST /api/v1/screen/bulk around screener.bulk_screen: the response built
\* from the summary, or the exception passed on
BulkEndpoint(out) ==
    IF out.pc = "raised" THEN [status |-> "error", body |-> << >>]
    ELSE [status |-> "ok", body |-> <<BulkSummary(out)>>]

BulkStart(hist) ==
    [pc |-> "running", results |-> << >>, hits |-> << >>, history |-> hist,
     error |-> NoError]

InitBulk ==
    /\ config \in SearchConfigs
    /\ entities = FullLoad(<<OfacIndividual>>, <<UnEntity>>).entities
    /\ docIndex = FullLoad(<<OfacIndividual>>, <<UnEntity>>).docIndex
    /\ history = << >>
    /\ phase = "load"
    /\ lastInput = NoInput
    /\ lastLimit = 0
    /\ outcome = NoOutcome
    /\ trace = << >>
    /\ server = NoServer
    /\ bulk = NoBulk
    /\ calls = << >>
    /\ build = StdlibOnly

\* a call of bulk_screen(csv_file), through the endpoint
BulkScreen ==
    /\ phase = "load"
    /\ \E rows \in SeqsUpTo(BulkRows, MaxRows) :
        \E out \in {BulkLoop(rows, 1, config, entities, docIndex, BulkStart(history))} :
            /\ phase' = "bulk"
            /\ bulk' = [pc |-> out.pc, rows |-> rows, results |-> out.results,
                        hits |-> out.hits, error |-> out.error,
                        response |-> BulkEndpoint(out)]
            /\ history' = out.history
            /\ UNCHANGED <<build, calls, config, entities, docIndex, lastInput, lastLimit, outcome,
                           trace, server>>

NextBulk == BulkScreen

SpecBulk == InitBulk /\ [][NextBulk]_vars

\* whether screening row i would fail: a field is missing, or the input built
\* from the row does not validate
RowFails(row, cfg) ==
    \/ row.cedula = None
    \/ row.pais = None
    \/ /\ Strip(row.nombre) # << >>
       /\ ValidateScreeningInput(RowInput(row), cfg).code # "OK"

\* C10 (bulk isolation): bulk_screen returns its summary, and every row with a
\* name whose own screening does not fail has a result, whatever other rows do
C10_BulkIsolation ==
    phase = "bulk" =>
        /\ bulk.pc = "returned"
        /\ bulk.response.status = "ok"
        /\ \A i \in DOMAIN bulk.rows :
              (~RowFails(bulk.rows[i], config) /\ Strip(bulk.rows[i].nombre) # << >>)
                  => \E k \in DOMAIN bulk.results : bulk.results[k].row = i

\* bulk_screen returns exactly when no row fails, and then every row with a
\* name has its result, in row order
C10_BulkReturnsWhenNoRowFails ==
    phase = "bulk" =>
        /\ bulk.pc = "returned" <=> \A i \in DOMAIN bulk.rows : ~RowFails(bulk.rows[i], config)
        /\ bulk.pc = "returned" =>
              /\ \A i \in DOMAIN bulk.rows :
                    Strip(bulk.rows[i].nombre) # << >>
                        <=> \E k \in DOMAIN bulk.results : bulk.results[k].row = i
              /\ \A k \in 1..(Len(bulk.results) - 1) :
                    bulk.results[k].row < bulk.results[k + 1].row
              /\ Len(history) = Len(bulk.results)

(***************************************************************************)
(* One screener serving screen_individual calls one after another          *)
(***************************************************************************)
\* the _max_history_size of the screener of this scenario (10 000 in __init__)
MaxHistory == 2
MaxCalls == 4

HistoryInputs ==
    {MkInput(Str_abE_ceo_bob, None, None, None, None),
     MkInput(Str_oo, Doc_ab1, None, None, None),
     MkInput(Str_abe_ceo, None, None, Dob1960, None),
     MkInput(<<"a">>, None, None, None, None)}

InitHistory ==
    /\ config = DefaultConfig
    /\ entities = FullLoad(<<OfacIndividual>>, <<UnEntity>>).entities
    /\ docIndex = FullLoad(<<OfacIndividual>>, <<UnEntity>>).docIndex
    /\ history = << >>
    /\ phase = "history"
    /\ lastInput = NoInput
    /\ lastLimit = 0
    /\ outcome = NoOutcome
    /\ trace = << >>
    /\ server = NoServer
    /\ bulk = NoBulk
    /\ calls = << >>
    /\ build = StdlibOnly

\* one more call of screen_individual on the same screener
ScreenAgain ==
    /\ phase = "history"
    /\ Len(calls) < MaxCalls
    /\ \E input \in HistoryInputs :
        \E r \in {ScreenIndividualResult(input, config, entities, docIndex)} :
            /\ lastInput' = input
            /\ lastLimit' = DEFAULT_LIMIT
            /\ outcome' = [f \in DOMAIN r \ {"trace"} |-> r[f]]
            /\ trace' = r.trace
            /\ history' = IF r.error.code = "OK"
                          THEN AppendBounded(history, r, MaxHistory) ELSE history
            /\ calls' = IF r.error.code = "OK" THEN Append(calls, r) ELSE calls
            /\ UNCHANGED <<build, bulk, config, entities, docIndex, phase, server>>

NextHistory == ScreenAgain

SpecHistory == InitHistory /\ [][NextHistory]_vars

\* the last min(Len(log), k) entries of log, in order
MostRecent(log, k) == SubSeq(log, Len(log) - Min(Len(log), k) + 1, Len(log))

\* C11 (bounded history): after any sequence of screen_individual calls the
\* history holds at most _max_history_size entries, and they are exactly the
\* most recent results in call order
C11_BoundedHistory ==
    phase = "history" =>
        /\ Len(history) <= MaxHistory
        /\ history = MostRecent(calls, MaxHistory)

\* more results were returned than the history holds, and the oldest is gone
C11_Witness ==
    /\ phase = "history"
    /\ Len(calls) > MaxHistory + 1
    /\ Len(history) = MaxHistory
    /\ history[1] # calls[1]
    /\ history[MaxHistory] = calls[Len(calls)]

(***************************************************************************)
(* Claims about the loaded index                                           *)
(***************************************************************************)
\* the entity references stored under key k
RefsUnder(k) == {docIndex[k][j] : j \in DOMAIN docIndex[k]}

\* whether the index has an entry under normalize_document(number) that
\* references entity i
IndexedUnder(number, i) ==
    /\ NormalizeDocument(number) \in DOMAIN docIndex
    /\ i \in RefsUnder(NormalizeDocument(number))

\* C12 (index completeness): after any loads, every identity document with a
\* non-empty number and every vessel IMO is indexed under its normalized
\* number with a reference to its entity, and every list of the index is
\* non-empty and references only entities of the entity list
C12_IndexCompleteness ==
    phase \in {"load", "searched", "screened"} =>
        /\ \A i \in DOMAIN entities :
              /\ \A d \in DOMAIN entities[i].identity_documents :
                    Truthy(entities[i].identity_documents[d].number)
                        => IndexedUnder(entities[i].identity_documents[d].number, i)
              /\ Truthy(entities[i].vesselIMO)
                    => IndexedUnder(entities[i].vesselIMO, i)
        /\ \A k \in DOMAIN docIndex :
              /\ docIndex[k] # << >>
              /\ RefsUnder(k) \subseteq DOMAIN entities

\* two loaded entities share a key, one of them through its vessel IMO, the
\* other through two documents whose numbers normalize to that key
C12_Witness ==
    /\ phase = "load"
    /\ \E k \in DOMAIN docIndex :
          /\ Cardinality(RefsUnder(k)) >= 2
          /\ Len(docIndex[k]) > Cardinality(RefsUnder(k))
    /\ \E i \in DOMAIN entities :
          /\ Truthy(entities[i].vesselIMO)
          /\ IndexedUnder(entities[i].vesselIMO, i)

(***************************************************************************)
(* sanitize_for_logging on its own                                         *)
(***************************************************************************)
MaxLogLen == 3

LogChars == {"a", " ", "LF", "DEL", "ZWSP", "LSEP"}

\* seed repeated up to n characters
Pad(seed, n) == << >> \o [i \in 1..n |-> seed[((i - 1) % Len(seed)) + 1]]

LongSeeds == {<<"a">>, <<"a", " ">>, <<"a", "LF", "NEL">>, <<"ZWSP">>, <<"a", "BOM">>,
              <<" ", " ", "a">>}

LongLengths == {LOG_MAX_LENGTH - 1, LOG_MAX_LENGTH, LOG_MAX_LENGTH + 1,
                2 * LOG_MAX_LENGTH + 3}

LogInputs ==
    {None, << >>} \cup SeqsUpTo(LogChars, MaxLogLen)
        \cup {Pad(seed, n) : seed \in LongSeeds, n \in LongLengths}

InitLog ==
    /\ config = DefaultConfig
    /\ entities = << >>
    /\ docIndex = EmptyIndex
    /\ history = << >>
    /\ phase = "log"
    /\ lastInput = None
    /\ lastLimit = 0
    /\ outcome = [text |-> << >>]
    /\ trace = << >>
    /\ server = NoServer
    /\ bulk = NoBulk
    /\ calls = << >>
    /\ build = StdlibOnly

\* a call of sanitize_for_logging(text)
SanitizeCall ==
    /\ phase = "log"
    /\ \E text \in LogInputs :
        /\ lastInput' = text
        /\ outcome' = [text |-> SanitizeForLogging(text)]
    /\ phase' = "sanitized"
    /\ UNCHANGED <<build, bulk, calls, config, entities, docIndex, history, lastLimit, trace,
                   server>>

NextLog == SanitizeCall

SpecLog == InitLog /\ [][NextLog]_vars

\* the invisible characters of the log rule that are modelled: U+200B,
\* U+FEFF, U+2028
InvisibleChars == {"ZWSP", "BOM", "LSEP"}

HasCharIn(s, set) == \E i \in DOMAIN s : s[i] \in set

\* C14 (log sanitization): the result of sanitize_for_logging holds no
\* character of \x00-\x1F or \x7F-\x9F, no zero-width character, BOM or
\* line/paragraph separator, and is at most 500 characters long
C14_LogSanitization ==
    phase = "sanitized" =>
        /\ ~HasCharIn(outcome.text, LogControlChars)
        /\ ~HasCharIn(outcome.text, InvisibleChars)
        /\ Len(outcome.text) <= LOG_MAX_LENGTH

\* what the code guarantees: no C0/C1 control character, no whitespace other
\* than single spaces, none of them leading, at most 500 characters
C14_ControlsAndLength ==
    phase = "sanitized" =>
        /\ ~HasCharIn(outcome.text, LogControlChars \cup (SpaceChars \ {" "}))
        /\ Len(outcome.text) <= LOG_MAX_LENGTH
        /\ \A i \in DOMAIN outcome.text :
              outcome.text[i] = " " =>
                  /\ i # 1
                  /\ i < Len(outcome.text) => outcome.text[i + 1] # " "

\* a text longer than 500 characters after cleaning was cut to 500, and a
\* text with control characters was cleaned
C14_Truncated ==
    /\ phase = "sanitized"
    /\ Len(lastInput) > LOG_MAX_LENGTH
    /\ Len(outcome.text) = LOG_MAX_LENGTH
    /\ HasCharIn(lastInput, LogControlChars)

(***************************************************************************)
(* XML parsing of a downloaded list                                        *)
(*                                                                         *)
(* A document is described by what its DOCTYPE declares and by whether a   *)
(* field of a list entry holds a reference to the declared entity.  The    *)
(* text of that field after parsing is "plain" (the literal text),         *)
(* "internal" (the replacement text written in the document itself),       *)
(* "unexpanded" (the reference was left alone) or "external" (the content  *)
(* of the resource the entity points to).                                  *)
(***************************************************************************)
XmlDocs ==
    {[list |-> l, dtd |-> "none", ref |-> FALSE] : l \in {"ofac", "un"}}
      \cup {[list |-> l, dtd |-> d, ref |-> r] :
                l \in {"ofac", "un"}, d \in {"internal", "external", "parameter"},
                r \in BOOLEAN}

Parsed(text) == [status |-> "parsed", text |-> text]
Rejected == [status |-> "rejected", text |-> "none"]

\* lxml with XMLParser(resolve_entities=False, no_network=True,
\* dtd_validation=False, load_dtd=False): references stay entity nodes; a
\* reference to an entity that only an unloaded external subset declares is
\* kept or refused
LxmlSecureParser(doc) ==
    IF ~doc.ref THEN {Parsed("plain")}
    ELSE IF doc.dtd = "parameter" THEN {Parsed("unexpanded"), Rejected}
    ELSE {Parsed("unexpanded")}

\* defusedxml.ElementTree.parse: any entity declaration raises
DefusedParser(doc) ==
    IF doc.dtd = "none" THEN {Parsed("plain")} ELSE {Rejected}

\* xml.etree.ElementTree: internal entities are replaced, a reference to an
\* external entity or to an entity of an external subset is an
\* "undefined entity" ParseError
StdlibParser(doc) ==
    IF ~doc.ref THEN {Parsed("plain")}
    ELSE IF doc.dtd = "internal" THEN {Parsed("internal")}
    ELSE {Rejected}

\* lxml's default parser before 5.0 (resolve_entities=True): entities are
\* replaced, external ones by the content of the resource read
LxmlLegacyDefaultParser(doc) ==
    IF ~doc.ref THEN {Parsed("plain")}
    ELSE IF doc.dtd = "internal" THEN {Parsed("internal")}
    ELSE {Parsed("external")}

\* lxml's default parser from 5.0 on (resolve_entities='internal')
LxmlDefaultParser(doc) ==
    IF ~doc.ref THEN {Parsed("plain")}
    ELSE IF doc.dtd = "internal" THEN {Parsed("internal")}
    ELSE {Parsed("unexpanded"), Rejected}

\* xml_utils.secure_parse
SecureParse(doc, b) ==
    IF b.has_lxml THEN LxmlSecureParser(doc)
    ELSE IF b.has_defusedxml THEN DefusedParser(doc)
    ELSE StdlibParser(doc)

\* the downloader's etree.parse / etree.iterparse, etree being lxml.etree or
\* xml.etree.ElementTree, with no parser argument
EtreeParse(doc, b) ==
    IF b.has_lxml
    THEN (IF b.lxml_legacy THEN LxmlLegacyDefaultParser(doc)
          ELSE LxmlDefaultParser(doc))
    ELSE StdlibParser(doc)

\* the fields of the list entries built from a parse: the text of each
\* parsed element is copied into the entity
StoredFields(r) == IF r.status = "parsed" THEN <<r.text>> ELSE << >>

NoParse == [path |-> "none", doc |-> [list |-> "none", dtd |-> "none", ref |-> FALSE],
            status |-> "none", text |-> "none", stored |-> << >>]

Ingested(path, doc, r, stored) ==
    [path |-> path, doc |-> doc, status |-> r.status, text |-> r.text,
     stored |-> stored]

InitIngest ==
    /\ build \in Builds
    /\ config = DefaultConfig
    /\ entities = << >>
    /\ docIndex = EmptyIndex
    /\ history = << >>
    /\ phase = "ingest"
    /\ lastInput = NoInput
    /\ lastLimit = 0
    /\ outcome = NoParse
    /\ trace = << >>
    /\ server = NoServer
    /\ bulk = NoBulk
    /\ calls = << >>

IngestStep(path, doc, r, stored) ==
    /\ outcome' = Ingested(path, doc, r, stored)
    /\ phase' = "ingested"
    /\ UNCHANGED <<build, bulk, calls, config, entities, docIndex, history, lastInput,
                   lastLimit, trace, server>>

\* EnhancedSanctionsScreener.load_ofac / load_un: secure_parse, then the
\* entries are parsed and stored; an exception of the parser leaves the call.
\* (load_ofac's _extract_namespace stops at the start of the root element,
\* before any element text.)
ScreenerLoadXml ==
    /\ phase \in {"ingest", "ingested"}
    /\ \E doc \in XmlDocs : \E r \in SecureParse(doc, build) :
          IngestStep("screener_load_" \o doc.list, doc, r, StoredFields(r))

\* EnhancedSanctionsDownloader.validate_ofac_xml: the entries are parsed and
\* counted, none is kept; a parse error becomes a validation error
ValidateOfacXml ==
    /\ phase \in {"ingest", "ingested"}
    /\ \E doc \in {d \in XmlDocs : d.list = "ofac"} : \E r \in EtreeParse(doc, build) :
          IngestStep("validate_ofac_xml", doc, r, << >>)

\* EnhancedSanctionsDownloader.parse_ofac_xml
ParseOfacXml ==
    /\ phase \in {"ingest", "ingested"}
    /\ \E doc \in {d \in XmlDocs : d.list = "ofac"} : \E r \in EtreeParse(doc, build) :
          IngestStep("parse_ofac_xml", doc, r, StoredFields(r))

\* EnhancedSanctionsDownloader.parse_un_xml
ParseUnXml ==
    /\ phase \in {"ingest", "ingested"}
    /\ \E doc \in {d \in XmlDocs : d.list = "un"} : \E r \in EtreeParse(doc, build) :
          IngestStep("parse_un_xml", doc, r, StoredFields(r))

NextIngest == ScreenerLoadXml \/ ValidateOfacXml \/ ParseOfacXml \/ ParseUnXml

SpecIngest == InitIngest /\ [][NextIngest]_vars

\* the parsed document declares an external or a parameter entity
DeclaresExternal == outcome.doc.dtd \in {"external", "parameter"}

NoExternalContent ==
    /\ outcome.text # "external"
    /\ \A i \in DOMAIN outcome.stored : outcome.stored[i] # "external"

\* C13 (XXE inertness on every ingestion path): a parse of a document whose
\* DOCTYPE declares an external or parameter entity, by secure_parse in
\* load_ofac / load_un or by the downloader's validate_ofac_xml,
\* parse_ofac_xml or parse_un_xml, is rejected or leaves the entity
\* unexpanded: no external content is in an element text or a stored field
C13_XxeInertness ==
    (phase = "ingested" /\ DeclaresExternal) => NoExternalContent

\* the same for the screener's loads alone, which go through secure_parse
C13_SecureParseInert ==
    (/\ phase = "ingested"
     /\ DeclaresExternal
     /\ outcome.path \in {"screener_load_ofac", "screener_load_un"})
        => NoExternalContent

\* a screener load parsed a document that references its external entity
\* and stored the entry with the reference unexpanded
C13_SecureParseWitness ==
    /\ phase = "ingested"
    /\ outcome.path = "screener_load_un"
    /\ outcome.doc.dtd = "external"
    /\ outcome.doc.ref
    /\ outcome.status = "parsed"
    /\ outcome.stored = <<"unexpanded">>

(***************************************************************************)
(* Loading a configuration file (config_manager.py)                        *)
(*                                                                         *)
(* A file is the dictionary yaml.safe_load returns, or is not YAML.  A key *)
(* the file leaves out is Absent, a key it holds is Given(value).  Weights  *)
(* are in hundredths.                                                      *)
(***************************************************************************)
Absent == << >>
Given(v) == <<v>>

\* cfg.get(key, default)
GetOr(v, default) == IF v = Absent THEN default ELSE v[1]

FileWeights(n, d, b, c, a) ==
    [name |-> n, document |-> d, dob |-> b, nationality |-> c, address |-> a]

\* MatchingConfig.weights
DefaultWeights == FileWeights(40, 30, 15, 10, 5)

\* a file with no keys
EmptyFile ==
    [yaml_ok |-> TRUE, name_threshold |-> Absent, short_name_threshold |-> Absent,
     weights |-> Absent, recommendation_thresholds |-> Absent,
     name_min_length |-> Absent, name_max_length |-> Absent,
     document_max_length |-> Absent]

RawConfigs ==
    [yaml_ok : {TRUE},
     name_threshold : {Absent, Given(0 - 1), Given(85), Given(101)},
     short_name_threshold : {Absent, Given(150)},
     weights : {Absent, Given(FileWeights(50, 50, 50, 10, 5))},
     recommendation_thresholds :
         {Absent,
          Given([auto_clear |-> 90, manual_review |-> 80, auto_escalate |-> 95]),
          Given([auto_clear |-> 60, manual_review |-> 85, auto_escalate |-> 85])},
     name_min_length : {Absent, Given(0), Given(5)},
     name_max_length : {Absent, Given(3), Given(1001)},
     document_max_length : {Absent, Given(0)}]
      \cup {[EmptyFile EXCEPT !.yaml_ok = FALSE]}

\* _parse_matching, _parse_reporting, _parse_input_validation
ParseConfig(raw) ==
    [matching |->
        [DefaultMatching EXCEPT
            !.name_threshold = GetOr(raw.name_threshold, 85),
            !.short_name_threshold = GetOr(raw.short_name_threshold, 95),
            !.weights = GetOr(raw.weights, DefaultWeights)],
     reporting |-> GetOr(raw.recommendation_thresholds, DefaultReporting),
     input_validation |->
        [DefaultInputValidation EXCEPT
            !.name_min_length = GetOr(raw.name_min_length, 2),
            !.name_max_length = GetOr(raw.name_max_length, 200),
            !.document_max_length = GetOr(raw.document_max_length, 50)]]

\* the validation rules of the configuration, on a parsed configuration
SumOfWeights(w) == w.name + w.document + w.dob + w.nationality + w.address

ViolatesRule(cfg) ==
    \/ cfg.matching.name_threshold < 0 \/ cfg.matching.name_threshold > 100
    \/ cfg.matching.short_name_threshold < 0
    \/ cfg.matching.short_name_threshold > 100
    \/ ~(cfg.reporting.auto_clear < cfg.reporting.manual_review)
    \/ ~(cfg.reporting.manual_review < cfg.reporting.auto_escalate)
    \/ ~(0 < cfg.input_validation.name_min_length)
    \/ ~(cfg.input_validation.name_min_length <= cfg.input_validation.name_max_length)
    \/ ~(cfg.input_validation.name_max_length <= 1000)
    \/ cfg.input_validation.document_max_length <= 0
    \/ SumOfWeights(cfg.matching.weights) # 100

\* ConfigManager._validate: "pass"
Validate(cfg) == "ok"

\* ConfigManager.load: the error raised, or "ok"
Load(raw) ==
    IF ~raw.yaml_ok THEN "ConfigurationError" ELSE Validate(ParseConfig(raw))

InitConfig ==
    /\ build = StdlibOnly
    /\ config = DefaultConfig
    /\ entities = << >>
    /\ docIndex = EmptyIndex
    /\ history = << >>
    /\ phase = "unconfigured"
    /\ lastInput = EmptyFile
    /\ lastLimit = 0
    /\ outcome = [raised |-> "none"]
    /\ trace = << >>
    /\ server = NoServer
    /\ bulk = NoBulk
    /\ calls = << >>

\* ConfigManager(path) on an existing file: the dataclass defaults, then load
ConstructConfig ==
    /\ phase = "unconfigured"
    /\ \E raw \in RawConfigs :
        /\ lastInput' = raw
        /\ outcome' = [raised |-> Load(raw)]
        /\ config' = IF raw.yaml_ok THEN ParseConfig(raw) ELSE DefaultConfig
    /\ phase' = "configured"
    /\ UNCHANGED <<build, bulk, calls, entities, docIndex, history, lastLimit, trace,
                   server>>

NextConfig == ConstructConfig

SpecConfig == InitConfig /\ [][NextConfig]_vars

\* C15 (invalid configuration is rejected): constructing a ConfigManager from
\* a file that violates a validation rule (thresholds outside [0,100],
\* recommendation thresholds not strictly ascending, name lengths not
\* 0 < min <= max <= 1000, document_max_length <= 0, weights not summing to
\* 1.0) raises ConfigurationError
C15_InvalidConfigRejected ==
    (/\ phase = "configured"
     /\ lastInput.yaml_ok
     /\ ViolatesRule(ParseConfig(lastInput)))
        => outcome.raised = "ConfigurationError"

\* a file within every rule loads, with its values in the configuration
C15_ValidConfigLoads ==
    (/\ phase = "configured"
     /\ lastInput.yaml_ok
     /\ ~ViolatesRule(ParseConfig(lastInput)))
        => (outcome.raised = "ok" /\ config = ParseConfig(lastInput))

\* what the code does raise for: a file that is not YAML
C15_UnreadableConfigRejected ==
    (phase = "configured" /\ ~lastInput.yaml_ok)
        => outcome.raised = "ConfigurationError"

(***************************************************************************)
(* The malformation gate: download_and_parse_all, then the screener loads   *)
(***************************************************************************)
UnMalformed == [UnIndividual EXCEPT !.id = None]

GateOfacFiles == SeqsUpTo({OfacIndividual, OfacEntity, OfacMalformed}, MaxFileLen)
GateUnFiles == SeqsUpTo({UnIndividual, UnEntity, UnMalformed}, MaxFileLen)

\* config.data.malformed_entity_threshold: the default 1.0 and a file's 50
GateThresholds == {MALFORMED_ENTITY_THRESHOLD, 50}

RECURSIVE ParseAll(_, _)
\* the loop of parse_ofac_xml / parse_un_xml: the entities of the elements
\* that parse, the others skipped
ParseAll(elems, parse) ==
    IF elems = << >> THEN << >>
    ELSE (IF parse = "OFAC" THEN ParseOfacEntity(Head(elems))
          ELSE ParseUnEntity(Head(elems)))
         \o ParseAll(Tail(elems), parse)

\* parse_un_xml: the individuals, then the entities
ParseUnEntities(elems) == ParseAll(SelectKind(elems, TRUE) \o SelectKind(elems, FALSE), "UN")

\* download_and_parse_all on two downloaded files: the entities returned and
\* validation.is_valid.  Only the OFAC file is validated.
DownloadedEntities(ofacElems, unElems, threshold) ==
    [entities |->
        (IF HighMalformationRate(ofacElems, threshold) THEN << >>
         ELSE ParseAll(ofacElems, "OFAC"))
        \o ParseUnEntities(unElems),
     is_valid |-> ~HighMalformationRate(ofacElems, threshold)]

InitGate ==
    /\ build = StdlibOnly
    /\ config \in {[matching |-> DefaultMatching,
                     input_validation |-> DefaultInputValidation,
                     reporting |-> DefaultReporting,
                     data |-> [malformed_entity_threshold |-> t]] :
                        t \in GateThresholds}
    /\ entities = << >>
    /\ docIndex = EmptyIndex
    /\ history = << >>
    /\ phase = "gate"
    /\ lastInput = NoInput
    /\ lastLimit = 0
    /\ outcome = [ofac |-> << >>, un |-> << >>, entities |-> << >>, is_valid |-> TRUE]
    /\ trace = << >>
    /\ server = NoServer
    /\ bulk = NoBulk
    /\ calls = << >>

\* downloader.download_and_parse_all(), both downloads succeeding
GateDownload ==
    /\ phase = "gate"
    /\ \E ofacElems \in GateOfacFiles, unElems \in GateUnFiles :
        \E d \in {DownloadedEntities(ofacElems, unElems,
                                     config.data.malformed_entity_threshold)} :
            outcome' = [ofac |-> ofacElems, un |-> unElems,
                        entities |-> d.entities, is_valid |-> d.is_valid]
    /\ phase' = "downloaded"
    /\ UNCHANGED <<build, bulk, calls, config, entities, docIndex, history, lastInput,
                   lastLimit, trace, server>>

\* update_data after the download: a new screener loads the files of the
\* data directory, whatever the validation said
GateScreenerLoad ==
    /\ phase = "downloaded"
    /\ \E st \in {FullLoad(outcome.ofac, outcome.un)} :
        /\ entities' = st.entities
        /\ docIndex' = st.docIndex
    /\ phase' = "loaded"
    /\ UNCHANGED <<build, bulk, calls, config, history, lastInput, lastLimit, outcome,
                   trace, server>>

NextGate == GateDownload \/ GateScreenerLoad

SpecGate == InitGate /\ [][NextGate]_vars

\* the ids, in order, of the entities of one source in a list of entities
IdsOfSource(ents, source) ==
    LET own == SelectSeq(ents, LAMBDA e : e.source = source)
    IN  << >> \o [i \in DOMAIN own |-> own[i].id]

\* the gate on one file: nothing of it is loaded when its malformation rate
\* is above the threshold, its well-formed entities are loaded otherwise
GateOn(elems, source, loaded) ==
    IF HighMalformationRate(elems, config.data.malformed_entity_threshold)
    THEN IdsOfSource(loaded, source) = << >>
    ELSE IdsOfSource(loaded, source)
            = IdsOfSource(IF source = "OFAC" THEN ParseAll(elems, "OFAC")
                          ELSE ParseUnEntities(elems), source)

\* C16 (malformation gate): for every ingested list file, the file's
\* well-formed entities are loaded (the malformed ones skipped) when
\* malformed_count / entity_count is within config.malformed_entity_threshold,
\* and none of the file's entities is loaded when it is above
C16_MalformationGate ==
    /\ phase \in {"downloaded", "loaded"} =>
          /\ GateOn(outcome.ofac, "OFAC", outcome.entities)
          /\ GateOn(outcome.un, "UN", outcome.entities)
    /\ phase = "loaded" =>
          /\ GateOn(outcome.ofac, "OFAC", entities)
          /\ GateOn(outcome.un, "UN", entities)

\* the gate as the downloader applies it: on the OFAC file, for the entities
\* download_and_parse_all returns
C16_OfacDownloadGate ==
    phase \in {"downloaded", "loaded"} =>
        /\ GateOn(outcome.ofac, "OFAC", outcome.entities)
        /\ outcome.is_valid
              = ~HighMalformationRate(outcome.ofac,
                                      config.data.malformed_entity_threshold)

\* an OFAC file with one malformed entity of two was accepted under a
\* threshold of 50 and its well-formed entity returned
C16_AcceptedWithMalformed ==
    /\ phase = "downloaded"
    /\ config.data.malformed_entity_threshold = 50
    /\ outcome.ofac = <<OfacMalformed, OfacIndividual>>
    /\ outcome.is_valid
    /\ IdsOfSource(outcome.entities, "OFAC") = <<OfacIndividual.id>>

(***************************************************************************)
(* Validation of names written in the CJK, Arabic and Cyrillic blocks      *)
(***************************************************************************)
MaxNameLen == 3

BlockChars == CJK \cup Arabic \cup Cyrillic

BlockNames == SeqsUpTo(BlockChars, MaxNameLen)

\* the defaults, Latin-only mode, a minimum length of one character in both
\* modes, and a configuration that blocks a Cyrillic letter
UnicodeConfigs ==
    {DefaultConfig, LatinConfig,
     [DefaultConfig EXCEPT !.input_validation.name_min_length = 1],
     [LatinConfig EXCEPT !.input_validation.name_min_length = 1],
     [DefaultConfig EXCEPT !.input_validation.blocked_characters = {"<", ";", "ZHE"}]}

InitUnicode ==
    /\ build = StdlibOnly
    /\ config \in UnicodeConfigs
    /\ entities = << >>
    /\ docIndex = EmptyIndex
    /\ history = << >>
    /\ phase = "idle"
    /\ lastInput = NoInput
    /\ lastLimit = 0
    /\ outcome = NoOutcome
    /\ trace = << >>
    /\ server = NoServer
    /\ bulk = NoBulk
    /\ calls = << >>

\* validate_screening_input(ScreeningInput(name=...), config)
ValidateBlockName ==
    /\ phase = "idle"
    /\ \E name \in BlockNames :
        /\ lastInput' = MkInput(name, None, None, None, None)
        /\ outcome' = [error |-> ValidateScreeningInput(
                                    MkInput(name, None, None, None, None), config)]
    /\ phase' = "validated"
    /\ UNCHANGED <<build, bulk, calls, config, entities, docIndex, history, lastLimit,
                   trace, server>>

NextUnicode == ValidateBlockName

SpecUnicode == InitUnicode /\ [][NextUnicode]_vars

\* the validated name is made of characters of the three blocks and its
\* length is within the configured limits
BlockNameWithinLengths ==
    /\ phase = "validated"
    /\ \A i \in DOMAIN lastInput.name : lastInput.name[i] \in BlockChars
    /\ Len(lastInput.name) >= config.input_validation.name_min_length
    /\ Len(lastInput.name) <= config.input_validation.name_max_length

HitFlagsAgree(response) ==
    /\ response.hit_count = Len(response.matches)
    /\ response.is_hit <=> response.hit_count > 0

\* C18 (hit flag consistency): in every response of screen_individual, and
\* in the response the API builds from it, hit_count is the number of entries
\* of matches and is_hit is true exactly when hit_count > 0
C18_HitFlagConsistency ==
    (phase = "screened" /\ outcome.error.code = "OK") =>
        /\ HitFlagsAgree(outcome)
        /\ HitFlagsAgree(ApiResponse(outcome))

\* a screening returned two matches
C18_Witness ==
    /\ phase = "screened"
    /\ outcome.error.code = "OK"
    /\ outcome.is_hit
    /\ outcome.hit_count = 2
    /\ Len(ApiResponse(outcome).matches) = 2

\* a screening returned no match
C18_NoHitReached ==
    /\ phase = "screened"
    /\ outcome.error.code = "OK"
    /\ ~outcome.is_hit
    /\ outcome.matches = << >>

(***************************************************************************)
(* Identity of the loaded entities                                         *)
(***************************************************************************)
\* C19 (entity identity uniqueness): after any sequence of load_ofac and
\* load_un calls, no two entities of the entity list have the same
\* (source, id) pair
C19_EntityIdentityUnique ==
    \A i, j \in DOMAIN entities :
        (entities[i].source = entities[j].source /\ entities[i].id = entities[j].id)
            => i = j

\* what the loads do guarantee: every entity carries a non-empty id and the
\* source of the loader that stored it
C19_EntitiesCarryIdentity ==
    \A i \in DOMAIN entities :
        /\ Truthy(entities[i].id)
        /\ entities[i].source \in {"OFAC", "UN"}

(***************************************************************************)
(* Logging of validation failures                                          *)
(***************************************************************************)
\* the value of the field the error names
OffendingValue ==
    CASE outcome.error.field = "name" -> NameOf(lastInput)
      [] outcome.error.field = "date_of_birth" -> lastInput.date_of_birth
      [] outcome.error.field = "document_number" -> lastInput.document_number
      [] OTHER -> << >>

ValidationFailed == phase = "validated" /\ outcome.error.code # "OK"

\* C20 (every validation failure is logged): every InputValidationError of
\* validate_screening_input, whatever its code, comes with a log record that
\* holds the sanitized offending value
C20_EveryFailureLogged ==
    ValidationFailed =>
        /\ trace # << >>
        /\ \A i \in DOMAIN trace : trace[i].excerpt = SanitizeForLogging(OffendingValue)

\* what the code logs: a record with the sanitized name exactly for the
\* codes BLOCKED_CHARACTERS, CONTROL_CHARACTER and INVALID_FORMAT
C20_NameFormatFailuresLogged ==
    phase = "validated" =>
        /\ trace # << >>
              <=> outcome.error.code \in {"BLOCKED_CHARACTERS", "CONTROL_CHARACTER",
                                          "INVALID_FORMAT"}
        /\ \A i \in DOMAIN trace :
              trace[i].excerpt = SanitizeForLogging(NameOf(lastInput))

\* a name with a control character was refused and logged with the control
\* character blanked
C20_LoggedSanitized ==
    /\ ValidationFailed
    /\ outcome.error.code = "CONTROL_CHARACTER"
    /\ lastInput.name = <<"a", "LF", "b">>
    /\ trace = <<[level |-> "WARNING", excerpt |-> <<"a", " ", "b">>]>>

(***************************************************************************)
(* Claims about the lock of update_data (_screener_lock)                   *)
(***************************************************************************)
\* the steps of update_data that build the new index: the download and parse,
\* load_ofac and load_un
BuildSteps == {"download", "load_ofac", "load_un"}

\* C21 (gate held only for the swap): while a reload downloads, parses or loads
\* its new index, the lock is not held by it
C21_GateOnlyForSwap ==
    phase = "serving" =>
        \A u \in Reloaders :
            server.reload[u].pc \in BuildSteps => server.lock # u

\* C21, as the code has it: a reload holds the lock from before its download
\* until after its assignment to _screener, and at no other time; requests
\* never take the lock
C21_GateHeldForWholeReload ==
    phase = "serving" =>
        /\ \A u \in Reloaders :
              server.reload[u].pc \in BuildSteps \cup {"swap"} <=> server.lock = u
        /\ server.lock \in Reloaders \cup {0}

\* a reload is loading its new screener with the lock held, and a request has
\* captured and screened meanwhile
C21_Witness ==
    /\ phase = "serving"
    /\ \E u \in Reloaders :
          /\ server.reload[u].pc = "load_un"
          /\ server.lock = u
          /\ \E q \in Requests :
                /\ server.request[q].pc = "done"
                /\ server.request[q].published = server.reload[u].before

(***************************************************************************)
(* The normalizers applied once and then again to their own output         *)
(* (screener.py and database/models.py)                                    *)
(***************************************************************************)
MaxNormLen == 3

\* database/models.py, normalize_name: None and "" give "", then the steps of
\* the screener's normalizer in the same order
DbNormalizeName(name) ==
    IF name = None THEN << >>
    ELSE IF name = << >> THEN << >>
    ELSE Strip(UpperStr(CollapseSpaces(NonWordToSpace(DropMn(NFD(name))))))

\* database/models.py, normalize_document
DbNormalizeDocument(doc_number) ==
    IF doc_number = None THEN << >>
    ELSE IF doc_number = << >> THEN << >>
    ELSE UpperStr(DropDocSeparators(doc_number))

\* the four normalizers applied to one string
NormalizeAll(s) ==
    [name |-> NormalizeName(s), document |-> NormalizeDocument(s),
     db_name |-> DbNormalizeName(s), db_document |-> DbNormalizeDocument(s)]

\* each normalizer applied to what it returned before
NormalizeEach(r) ==
    [name |-> NormalizeName(r.name), document |-> NormalizeDocument(r.document),
     db_name |-> DbNormalizeName(r.db_name),
     db_document |-> DbNormalizeDocument(r.db_document)]

NormChars == {"a", "B", "e_acute", "COMB_ACUTE", "ZHE", "1", "_", " ", "LF", "-",
              ".", "/", "'", "ZWSP"}

NormInputs == {None} \cup SeqsUpTo(NormChars, MaxNormLen)

InitNormalize ==
    /\ config = DefaultConfig
    /\ entities = << >>
    /\ docIndex = EmptyIndex
    /\ history = << >>
    /\ phase = "raw"
    /\ lastInput = None
    /\ lastLimit = 0
    /\ outcome = NormalizeAll(None)
    /\ trace = << >>
    /\ server = NoServer
    /\ bulk = NoBulk
    /\ calls = << >>
    /\ build = StdlibOnly

\* normalize_name(s) and normalize_document(s) of both modules
NormalizeOnce ==
    /\ phase = "raw"
    /\ \E s \in NormInputs :
        /\ lastInput' = s
        /\ outcome' = NormalizeAll(s)
    /\ phase' = "once"
    /\ UNCHANGED <<build, bulk, calls, config, entities, docIndex, history, lastLimit, trace,
                   server>>

\* the normalizers called on their own results
NormalizeTwice ==
    /\ phase = "once"
    /\ trace' = <<NormalizeEach(outcome)>>
    /\ phase' = "twice"
    /\ UNCHANGED <<build, bulk, calls, config, entities, docIndex, history, lastInput,
                   lastLimit, outcome, server>>

NextNormalize == NormalizeOnce \/ NormalizeTwice

SpecNormalize == InitNormalize /\ [][NextNormalize]_vars

\* C22 (normalizer idempotence): normalizing a normalized name or document
\* again returns it unchanged, for the screener's normalizers and for the
\* database helpers
C22_NormalizerIdempotence ==
    phase = "twice" => trace[1] = outcome

\* a string with an accent, a separator and a lower-case letter went through
\* both normalizations: both normalizers changed it
C22_Witness ==
    /\ phase = "twice"
    /\ lastInput = <<"e_acute", "-", "a">>
    /\ outcome.name = <<"E", " ", "A">>
    /\ outcome.db_document = <<"E_ACUTE", "A">>
    /\ trace[1].name = <<"E", " ", "A">>

(***************************************************************************)
(* search under configurations whose maps lack keys (config_manager.py     *)
(* takes `weights`, `layers` and `recommendation_thresholds` from the file  *)
(* as they are)                                                            *)
(***************************************************************************)
Has(map, key) == key \in DOMAIN map

\* a map read with d[key] for the keys it has, the defaults elsewhere
Fill(map, defaults) ==
    [k \in DOMAIN defaults |-> IF Has(map, k) THEN map[k] ELSE defaults[k]]

\* the configuration with every key of the three maps present; the values
\* filled in are read only where the code would already have raised
Completed(cfg) ==
    [cfg EXCEPT !.matching.weights = Fill(@, DefaultMatching.weights),
                !.matching.layers = Fill(@, DefaultMatching.layers),
                !.reporting = Fill(@, DefaultReporting)]

\* matching.weights: {name: 1.0} in the file
NameOnlyWeightsConfig == [DefaultConfig EXCEPT !.matching.weights = [name |-> 100]]

\* matching.layers: {high_confidence: 90, moderate_match: 70} in the file
NoLowMatchConfig ==
    [DefaultConfig EXCEPT
        !.matching.layers = [high_confidence |-> 90, moderate_match |-> 70]]

\* reporting.recommendation_thresholds: {auto_escalate: 95} in the file
EscalateOnlyConfig == [DefaultConfig EXCEPT !.reporting = [auto_escalate |-> 95]]

FailureConfigs ==
    {DefaultConfig, NameWeightedConfig, NameOnlyWeightsConfig, NoLowMatchConfig,
     EscalateOnlyConfig}

NoKeyError == << >>

\* the first d[key] of the loop body of search that raises KeyError for an
\* entity with MatchResult c (computed under the completed configuration), in
\* the order the body reads the maps
KeyErrorFor(c, cfg, full) ==
    LET weights == cfg.matching.weights
        layers == cfg.matching.layers
        thresholds == cfg.reporting
    IN  IF ~Has(layers, "low_match") THEN <<"low_match">>
        ELSE IF BelowLowMatch(c.name_score, full) THEN NoKeyError
        ELSE IF ~Has(weights, "name") THEN <<"name">>
        ELSE IF ~Has(weights, "document") THEN <<"document">>
        ELSE IF ~Has(weights, "dob") THEN <<"dob">>
        ELSE IF c.document_score # 100 /\ ~Has(layers, "high_confidence")
             THEN <<"high_confidence">>
        ELSE IF /\ c.document_score # 100
                /\ RatLT(c.name_score, full.matching.layers.high_confidence)
                /\ ~Has(layers, "moderate_match")
             THEN <<"moderate_match">>
        ELSE IF ~Has(thresholds, "auto_escalate") THEN <<"auto_escalate">>
        ELSE IF /\ RatLT(c.overall, full.reporting.auto_escalate)
                /\ ~Has(thresholds, "manual_review")
             THEN <<"manual_review">>
        ELSE IF /\ RatLT(c.overall, full.reporting.manual_review)
                /\ ~Has(thresholds, "auto_clear")
             THEN <<"auto_clear">>
        ELSE NoKeyError

KeyErrorAt(input, cfg, entity, ref) ==
    KeyErrorFor(Candidate(input, Completed(cfg), entity, ref), cfg, Completed(cfg))

\* the entities the loop of search scores, in order
ScoredRefs(ents, doc_matches) ==
    {r \in DOMAIN ents : ~SkippedAsSeen(ents[r], SeenEntityIds(ents, doc_matches))}

\* the entities at which the loop body raises
RaisingRefs(input, cfg, ents, doc_matches) ==
    {r \in ScoredRefs(ents, doc_matches) :
        KeyErrorAt(input, cfg, ents[r], r) # NoKeyError}

\* search leaving by the KeyError raised at the entity `at`
RaisedAt(input, cfg, ents, doc_matches, at) ==
    [error |-> Err("KeyError", KeyErrorAt(input, cfg, ents[at], at)[1], FALSE),
     trace |-> <<"validate">>
               \o (IF Truthy(input.document_number) THEN <<"search_by_document">>
                   ELSE << >>)
               \o [i \in 1..Cardinality({r \in ScoredRefs(ents, doc_matches) : r <= at})
                     |-> "score_entity"]]

\* search after validation, given the layer-1 matches and the entities at
\* which the loop raises
SearchScan(input, limit, cfg, ents, idx, doc_matches, raising) ==
    IF NormalizeName(input.name) = << >> \/ raising = {}
    THEN Search(input, limit, Completed(cfg), ents, idx)
    ELSE RaisedAt(input, cfg, ents, doc_matches,
                  CHOOSE r \in raising : \A other \in raising : r <= other)

\* EnhancedSanctionsScreener.search with the exceptions of the loop body: the
\* validation error, the KeyError of the first entity whose scoring raises, or
\* the list returned
SearchRaising(input, limit, cfg, ents, idx) ==
    IF ValidateScreeningInput(input, cfg).code # "OK"
    THEN [error |-> ValidateScreeningInput(input, cfg), trace |-> <<"validate">>]
    ELSE \* layer 1 reads no configuration
         SearchScan(input, limit, cfg, ents, idx,
                    IF Truthy(input.document_number)
                    THEN SearchByDocument(ents, idx, input.document_number,
                                          input.document_type)
                    ELSE << >>,
                    RaisingRefs(input, cfg, ents,
                                IF Truthy(input.document_number)
                                THEN SearchByDocument(ents, idx, input.document_number,
                                                      input.document_type)
                                ELSE << >>))

InitFailure ==
    /\ config \in FailureConfigs
    /\ entities = << >>
    /\ docIndex = EmptyIndex
    /\ history = << >>
    /\ phase = "load"
    /\ lastInput = NoInput
    /\ lastLimit = 0
    /\ outcome = NoOutcome
    /\ trace = << >>
    /\ server = NoServer
    /\ bulk = NoBulk
    /\ calls = << >>
    /\ build = StdlibOnly

\* a call of search(input_data, limit) that may leave by any exception
SearchCallRaising ==
    /\ phase = "load"
    /\ \E input \in SearchInputs, limit \in SearchLimits :
        \E r \in {SearchRaising(input, limit, config, entities, docIndex)} :
            /\ phase' = "searched"
            /\ lastInput' = input
            /\ lastLimit' = limit
            /\ outcome' = [f \in DOMAIN r \ {"trace"} |-> r[f]]
            /\ trace' = r.trace
            /\ UNCHANGED <<build, bulk, calls, config, entities, docIndex, history, server>>

NextFailure == LoadOfac \/ LoadUn \/ SearchCallRaising

SpecFailure == InitFailure /\ [][NextFailure]_vars

\* the number of entities the loop body ran for
ScoredCount == Cardinality({i \in DOMAIN trace : trace[i] = "score_entity"})

\* C23 (matching failure semantics): under every configuration that loads, a
\* search on a validated input returns a result list, the validation error is
\* the only exception, and the scan reaches every entity
C23_OnlyValidationFails ==
    phase = "searched" =>
        /\ outcome.error = ValidateScreeningInput(lastInput, config)
        /\ outcome.error.code = "OK" => "results" \in DOMAIN outcome

\* under a configuration whose weights, layers and recommendation thresholds
\* hold every key, the validation error is the only exception
C23_CompleteConfigOnlyValidationFails ==
    (phase = "searched" /\ config = Completed(config)) =>
        /\ outcome.error = ValidateScreeningInput(lastInput, config)
        /\ outcome.error.code = "OK" => "results" \in DOMAIN outcome

\* a scan that ended at an entity with others still to score
C23_ScanAborted ==
    /\ phase = "searched"
    /\ outcome.error.code = "KeyError"
    /\ ScoredCount >= 1
    /\ ScoredCount < Len(entities)

(***************************************************************************)
(* Claims about the entities the name layers evaluate                      *)
(***************************************************************************)
\* the matches of the untruncated list that the name layers built
NameLayerRefs ==
    {outcome.unlimited[k].ref : k \in
        {j \in DOMAIN outcome.unlimited :
            "DOCUMENT_EXACT_MATCH" \notin Range(outcome.unlimited[j].flags)}}

\* a search that passed validation and went on to the name layers
NameLayersRan ==
    /\ phase = "searched"
    /\ outcome.error.code = "OK"
    /\ NormalizeName(lastInput.name) # << >>

\* C24 (layer-1 exclusion): the entities emitted by layer 1 are not evaluated
\* by the name layers, and every other entity of the index is
C24_Layer1Exclusion ==
    NameLayersRan =>
        /\ NameLayerRefs \cap Layer1Refs = {}
        /\ ScoredCount = Cardinality(DOMAIN entities \ Layer1Refs)

\* as the code has it: the name layers leave out every entity whose id equals
\* the id of a layer-1 match, whatever its source, and evaluate the others
C24_ExclusionById ==
    NameLayersRan =>
        /\ NameLayerRefs \cap Layer1Refs = {}
        /\ ScoredCount =
              Cardinality({i \in DOMAIN entities :
                             entities[i].id \notin {entities[j].id : j \in Layer1Refs}})

\* a layer-1 match from one list and an entity of the other list with the same
\* id that the name layers left out
C24_SkippedByForeignId ==
    /\ NameLayersRan
    /\ \E i \in DOMAIN entities, j \in Layer1Refs :
          /\ i \notin Layer1Refs
          /\ entities[i].id = entities[j].id
          /\ entities[i].source # entities[j].source
    /\ ScoredCount < Cardinality(DOMAIN entities \ Layer1Refs)

(***************************************************************************)
(* Claims about the limit                                                  *)
(***************************************************************************)
\* the list returned is the head of the sorted list of all admitted matches
IsSortedHead(results, unlimited, limit) ==
    /\ Len(results) <= limit
    /\ results = SubSeq(SortByConfidence(unlimited), 1, Min(limit, Len(unlimited)))

\* C25 (truncation to limit): search returns at most `limit` results, the
\* highest of the admitted ones in sorted order; a screen_individual response
\* has hit_count <= 10
C25_TruncationToLimit ==
    /\ (phase = "searched" /\ outcome.error.code = "OK")
          => IsSortedHead(outcome.results, outcome.unlimited, lastLimit)
    /\ (phase = "screened" /\ outcome.error.code = "OK")
          => outcome.hit_count <= DEFAULT_LIMIT

\* the truncation applies to every search that went on to the name layers
C25_TruncationAfterNameLayers ==
    NameLayersRan => IsSortedHead(outcome.results, outcome.unlimited, lastLimit)

\* more layer-1 matches returned than the limit, for a name that normalizes
\* to the empty string
C25_OverLimit ==
    /\ phase = "searched"
    /\ outcome.error.code = "OK"
    /\ NormalizeName(lastInput.name) = << >>
    /\ Len(outcome.results) > lastLimit

\* a search that went on to the name layers and cut admitted matches off
C25_CutOff ==
    /\ NameLayersRan
    /\ Len(outcome.unlimited) > lastLimit
    /\ Len(outcome.results) = lastLimit

(***************************************************************************)
(* search under several settings of reporting.recommendation_thresholds    *)
(***************************************************************************)
\* thresholds that put a name score of 10/11 in the LOW_CONFIDENCE_REVIEW band
LowBandConfig ==
    [NameWeightedConfig EXCEPT
        !.matching.common_names = {},
        !.reporting = [auto_clear |-> 88, manual_review |-> 95, auto_escalate |-> 100]]

\* thresholds that put it in the AUTO_CLEAR band
ClearBandConfig ==
    [NameWeightedConfig EXCEPT
        !.matching.common_names = {},
        !.reporting = [auto_clear |-> 92, manual_review |-> 95, auto_escalate |-> 100]]

RecommendConfigs == {DefaultConfig, NameWeightedConfig, LowBandConfig, ClearBandConfig}

InitRecommend ==
    /\ config \in RecommendConfigs
    /\ entities = << >>
    /\ docIndex = EmptyIndex
    /\ history = << >>
    /\ phase = "load"
    /\ lastInput = NoInput
    /\ lastLimit = 0
    /\ outcome = NoOutcome
    /\ trace = << >>
    /\ server = NoServer
    /\ bulk = NoBulk
    /\ calls = << >>
    /\ build = StdlibOnly

NextRecommend == LoadOfac \/ LoadUn \/ SearchCall

SpecRecommend == InitRecommend /\ [][NextRecommend]_vars

\* the band of the overall score among the configured thresholds
BandOf(overall) ==
    IF RatGE(overall, config.reporting.auto_escalate) THEN "AUTO_ESCALATE"
    ELSE IF RatGE(overall, config.reporting.manual_review) THEN "MANUAL_REVIEW"
    ELSE IF RatGE(overall, config.reporting.auto_clear) THEN "LOW_CONFIDENCE_REVIEW"
    ELSE "AUTO_CLEAR"

\* the common-name rule turned AUTO_ESCALATE into MANUAL_REVIEW for match m
Downgraded(m) ==
    /\ BandOf(m.overall) = "AUTO_ESCALATE"
    /\ m.recommendation = "MANUAL_REVIEW"
    /\ IsCommonName(lastInput.name, config)
    /\ m.document_score = 0

C26_AutoClearReached ==
    /\ phase = "searched"
    /\ outcome.error.code = "OK"
    /\ \E k \in DOMAIN outcome.results :
          outcome.results[k].recommendation = "AUTO_CLEAR"

\* a returned match that the common-name rule downgraded
C26_DowngradeReached ==
    /\ phase = "searched"
    /\ outcome.error.code = "OK"
    /\ \E k \in DOMAIN outcome.results : Downgraded(outcome.results[k])

(***************************************************************************)
(* The admission threshold search chooses for a name (_is_short_name,      *)
(* _get_adaptive_threshold)                                                *)
(***************************************************************************)
MaxShortLen == 3

ThresholdChars == {"LI", "ALEF", "ZHE", "A", "a", ".", " "}

\* names of up to MaxShortLen characters, and names that are not short
ThresholdNames ==
    (SeqsUpTo(ThresholdChars, MaxShortLen) \ {<< >>})
        \cup {Str_abe_ceo_bob, Pad(<<"ZHE">>, 10), Pad(<<"LI">>, 12),
              Pad(<<"A", "B", "C", " ">>, 11)}

\* matching.adaptive_thresholds.enabled: false
FixedThresholdConfig ==
    [DefaultConfig EXCEPT !.matching.adaptive_thresholds.enabled = FALSE]

ThresholdConfigs == {DefaultConfig, FixedThresholdConfig}

InitThreshold ==
    /\ config \in ThresholdConfigs
    /\ entities = << >>
    /\ docIndex = EmptyIndex
    /\ history = << >>
    /\ phase = "name"
    /\ lastInput = NoInput
    /\ lastLimit = 0
    /\ outcome = [threshold |-> 0, reason |-> "none"]
    /\ trace = << >>
    /\ server = NoServer
    /\ bulk = NoBulk
    /\ calls = << >>
    /\ build = StdlibOnly

\* search, up to "Determine threshold based on name characteristics"
ThresholdCall ==
    /\ phase = "name"
    /\ \E name \in ThresholdNames :
        /\ lastInput' = MkInput(name, None, None, None, None)
        /\ outcome' = BaseThreshold(MkInput(name, None, None, None, None), config)
    /\ phase' = "threshold"
    /\ UNCHANGED <<build, bulk, calls, config, entities, docIndex, history, lastLimit, trace,
                   server>>

NextThreshold == ThresholdCall

SpecThreshold == InitThreshold /\ [][NextThreshold]_vars

\* the threshold of the adaptive rule with the scripts tested first, then the
\* initials
ScriptFirstThreshold(name, cfg) ==
    LET adaptive == cfg.matching.adaptive_thresholds
        script == DetectUnicodeScript(name)
    IN  IF ~IsShortName(name) THEN cfg.matching.name_threshold
        ELSE IF script = "chinese" THEN adaptive.chinese
        ELSE IF script = "arabic" THEN adaptive.arabic
        ELSE IF script = "cyrillic" THEN adaptive.cyrillic
        ELSE IF IsLatinInitials(name) THEN adaptive.latin_initials
        ELSE cfg.matching.short_name_threshold

\* C27 (adaptive short-name threshold): with adaptive thresholds enabled, a
\* short name gets 85 when more than half of its letters are CJK, 90 for
\* Arabic, 90 for Cyrillic, 98 when it looks like initials, else
\* short_name_threshold; a name that is not short gets name_threshold
C27_AdaptiveThreshold ==
    (phase = "threshold" /\ config.matching.adaptive_thresholds.enabled)
        => outcome.threshold = ScriptFirstThreshold(lastInput.name, config)

\* as the code has it: the initials test comes first and takes every name of
\* at most 4 letters without a lower-case letter and with an upper-case one,
\* of whatever script; then the script; all of it only when adaptive thresholds
\* are enabled
C27_InitialsFirst ==
    phase = "threshold" =>
        outcome.threshold =
            IF ~IsShortName(lastInput.name) THEN config.matching.name_threshold
            ELSE IF ~config.matching.adaptive_thresholds.enabled
                 THEN config.matching.short_name_threshold
            ELSE IF IsLatinInitials(lastInput.name)
                 THEN config.matching.adaptive_thresholds.latin_initials
            ELSE ScriptFirstThreshold(lastInput.name, config)

\* an upper-case Cyrillic name taken for initials
C27_CyrillicAsInitials ==
    /\ phase = "threshold"
    /\ lastInput.name = <<"ZHE", "ZHE">>
    /\ outcome = [threshold |-> 98, reason |-> "latin_initials"]

\* a short Cyrillic name with a lower-case letter gets the Cyrillic threshold
C27_CyrillicReached ==
    /\ phase = "threshold"
    /\ outcome = [threshold |-> 90, reason |-> "cyrillic_name"]

(***************************************************************************)
(* Claims about repeated matches                                           *)
(***************************************************************************)
SameEntity(a, b) == a.source = b.source /\ a.id = b.id

\* C28 (no duplicate matches): the list search returns holds each entity,
\* identified by source and id, at most once
C28_NoDuplicateMatches ==
    (phase = "searched" /\ outcome.error.code = "OK") =>
        \A k, l \in DOMAIN outcome.results :
            k # l => ~SameEntity(entities[outcome.results[k].ref],
                                 entities[outcome.results[l].ref])

\* the name layers emit each position of the entity list at most once and
\* never an entity that layer 1 emitted
C28_NameLayersEmitOnce ==
    (phase = "searched" /\ outcome.error.code = "OK") =>
        \A k, l \in DOMAIN outcome.unlimited :
            (/\ k # l
             /\ outcome.unlimited[k].ref = outcome.unlimited[l].ref)
                => /\ outcome.unlimited[k].flags = <<"DOCUMENT_EXACT_MATCH">>
                   /\ outcome.unlimited[l].flags = <<"DOCUMENT_EXACT_MATCH">>

\* one entity, loaded once, returned twice by the document layer
C28_ReturnedTwice ==
    /\ phase = "searched"
    /\ outcome.error.code = "OK"
    /\ Len(entities) = 1
    /\ Len(outcome.results) = 2
    /\ outcome.results[1].ref = outcome.results[2].ref

\* the reloads that are between entering the lock and leaving it
Building == {u \in Reloaders : server.reload[u].pc \in BuildSteps \cup {"swap"}}

\* every update_data call has returned
AllReturned == \A u \in Reloaders : server.reload[u].pc = "idle"

\* the screener at position ref of the heap holds exactly the load of files
LoadedFrom(ref, ofacFile, unFile) ==
    /\ server.heap[ref].stage = "full"
    /\ [entities |-> server.heap[ref].entities,
        docIndex |-> server.heap[ref].docIndex]
          = FullLoad(ofacFile, unFile)

\* C29 (reloads are serialized): at most one update_data at a time is between
\* the start of its build and its assignment; the screener a call is about to
\* assign is the load of the files as they now are in the data directory; and
\* once every call has returned, the shared screener is the most recently
\* built of the assigned ones, fully loaded from the files it read
C29_ReloadsSerialized ==
    phase = "serving" =>
        /\ Cardinality(Building) <= 1
        /\ \A u \in Reloaders :
              server.reload[u].pc = "swap" =>
                  LoadedFrom(server.reload[u].new, server.disk.ofac.elems,
                             server.disk.un.elems)
        /\ AllReturned =>
              /\ \A r \in server.served : r <= server.current
              /\ LoadedFrom(server.current, server.heap[server.current].ofac,
                            server.heap[server.current].un)

\* two reloads have both assigned, one after the other, and the screener in
\* service is the one of the second
C29_Witness ==
    /\ phase = "serving"
    /\ AllReturned
    /\ \A u \in Reloaders : server.reload[u].result \in {"success", "invalid"}
    /\ \E u, v \in Reloaders :
          /\ server.reload[u].after < server.reload[v].after
          /\ server.reload[v].before = server.reload[u].after
          /\ server.current = server.reload[v].after
          /\ server.heap[server.reload[u].after].entities
                # server.heap[server.reload[v].after].entities

\* one update_data waits for the lock while the other loads its screener
C29_WaitingReached ==
    /\ phase = "serving"
    /\ \E u, v \in Reloaders :
          /\ server.reload[u].pc = "waiting"
          /\ server.reload[v].pc = "load_un"


(***************************************************************************)
(* The screening request lifecycle (database/repositories.py,              *)
(* ScreeningResultRepository).  history holds the screening_requests       *)
(* table, one row per request in insertion order; a request's id is its    *)
(* position, and UnknownId is an id no row has.  trace logs every          *)
(* repository call with the table before and after it; outcome is the      *)
(* last call's return value or the error it raised.                        *)
(***************************************************************************)
MaxRequests == 2

MaxRequestCalls == 4

UnknownId == MaxRequests + 1

RequestIds == 1..UnknownId

AlgorithmVersions == {<< >>, <<"2.0.0">>}

ErrorMessages == {<<"timeout">>}

\* ScreeningRequest(status=ScreeningStatus.PENDING, ..., processing_start=now)
NewRequest ==
    [status |-> "PENDING", processing_end |-> FALSE,
     algorithm_version |-> << >>, error_message |-> << >>]

\* select(ScreeningRequest).where(ScreeningRequest.id == request_id)
\*   ... scalar_one_or_none()
FindRequest(table, request_id) ==
    IF request_id \in DOMAIN table THEN <<table[request_id]>> ELSE << >>

\* The assignments of complete_request after the lookup.
CompletedRequest(request, algorithm_version) ==
    [request EXCEPT !.status = "COMPLETED", !.processing_end = TRUE,
                    !.algorithm_version = algorithm_version]

\* The assignments of fail_request after the lookup.
FailedRequest(request, error_message) ==
    [request EXCEPT !.status = "FAILED", !.processing_end = TRUE,
                    !.error_message = error_message]

RequestLog(op, id, raised, after) ==
    Append(trace, [op |-> op, id |-> id, raised |-> raised,
                   before |-> history, after |-> after])

InitRequests ==
    /\ config = DefaultConfig
    /\ entities = << >>
    /\ docIndex = EmptyIndex
    /\ history = << >>
    /\ phase = "requests"
    /\ lastInput = NoInput
    /\ lastLimit = 0
    /\ outcome = [raised |-> "none", status |-> "none"]
    /\ trace = << >>
    /\ server = NoServer
    /\ bulk = NoBulk
    /\ calls = << >>
    /\ build = StdlibOnly

\* create_request
CreateRequest ==
    /\ phase = "requests"
    /\ Len(history) < MaxRequests
    /\ Len(trace) < MaxRequestCalls
    /\ history' = Append(history, NewRequest)
    /\ trace' = RequestLog("create", Len(history) + 1, FALSE, history')
    /\ outcome' = [raised |-> "none", status |-> NewRequest.status]
    /\ UNCHANGED <<build, bulk, calls, config, entities, docIndex, phase, lastInput,
                   lastLimit, server>>

\* complete_request
CompleteRequest ==
    /\ phase = "requests"
    /\ Len(trace) < MaxRequestCalls
    /\ \E request_id \in RequestIds, algorithm_version \in AlgorithmVersions :
         LET found == FindRequest(history, request_id) IN
         IF found = << >>
         THEN /\ history' = history
              /\ trace' = RequestLog("complete", request_id, TRUE, history)
              /\ outcome' = [raised |-> "EntityNotFoundError", status |-> "none"]
         ELSE /\ history' = [history EXCEPT ![request_id] =
                                CompletedRequest(found[1], algorithm_version)]
              /\ trace' = RequestLog("complete", request_id, FALSE, history')
              /\ outcome' = [raised |-> "none", status |-> history'[request_id].status]
    /\ UNCHANGED <<build, bulk, calls, config, entities, docIndex, phase, lastInput,
                   lastLimit, server>>

\* fail_request
FailRequest ==
    /\ phase = "requests"
    /\ Len(trace) < MaxRequestCalls
    /\ \E request_id \in RequestIds, error_message \in ErrorMessages :
         LET found == FindRequest(history, request_id) IN
         IF found = << >>
         THEN /\ history' = history
              /\ trace' = RequestLog("fail", request_id, TRUE, history)
              /\ outcome' = [raised |-> "EntityNotFoundError", status |-> "none"]
         ELSE /\ history' = [history EXCEPT ![request_id] =
                                FailedRequest(found[1], error_message)]
              /\ trace' = RequestLog("fail", request_id, FALSE, history')
              /\ outcome' = [raised |-> "none", status |-> history'[request_id].status]
    /\ UNCHANGED <<build, bulk, calls, config, entities, docIndex, phase, lastInput,
                   lastLimit, server>>

NextRequests == CreateRequest \/ CompleteRequest \/ FailRequest

SpecRequests == InitRequests /\ [][NextRequests]_vars

StatusOf(op) ==
    IF op = "create" THEN "PENDING" ELSE IF op = "complete" THEN "COMPLETED" ELSE "FAILED"

\* The logged calls that found request id, in call order.
CallsOn(id) == SelectSeq(trace, LAMBDA c : c.id = id /\ ~c.raised)

\* The calls that ended request id: the complete and fail calls that found it.
EndingCalls(id) == SelectSeq(trace, LAMBDA c : c.id = id /\ ~c.raised /\ c.op # "create")

Ended(request) == request.status \in {"COMPLETED", "FAILED"}

\* What every call did whatever the status of its row: create appended a
\* PENDING row; complete and fail with an id that no row has raised
\* EntityNotFoundError and left the table as it was; with an id that a row
\* has they returned and left every other row alone.
EachCallAsDescribed ==
    \A k \in DOMAIN trace :
      LET c == trace[k] IN
      /\ c.raised <=> (c.id \notin DOMAIN c.after)
      /\ c.raised => c.after = c.before
      /\ c.op = "create" => /\ c.id = Len(c.before) + 1
                            /\ c.after = Append(c.before, NewRequest)
      /\ (c.op # "create" /\ ~c.raised) =>
           /\ DOMAIN c.after = DOMAIN c.before
           /\ \A j \in DOMAIN c.after : j # c.id => c.after[j] = c.before[j]

\* C30: a request is created PENDING, complete_request moves it to
\* COMPLETED and fail_request to FAILED, a request that is COMPLETED or
\* FAILED keeps that status under every later complete_request and
\* fail_request call, and both raise EntityNotFoundError and change nothing
\* for an id that does not exist.
C30_RequestLifecycle ==
    phase = "requests" =>
      /\ EachCallAsDescribed
      /\ \A k \in DOMAIN trace :
           LET c == trace[k] IN
           (c.op # "create" /\ ~c.raised) =>
             c.after[c.id].status =
               IF Ended(c.before[c.id]) THEN c.before[c.id].status ELSE StatusOf(c.op)
      /\ \A id \in DOMAIN history :
           history[id].status =
             IF EndingCalls(id) = << >> THEN "PENDING"
             ELSE StatusOf(EndingCalls(id)[1].op)

\* C30, as the repository behaves: a request is created PENDING, an unknown
\* id raises EntityNotFoundError and changes nothing, and complete_request
\* and fail_request set COMPLETED and FAILED whatever the status was, so a
\* request's status is the one its latest call gave it.
C30_LastCallWins ==
    phase = "requests" =>
      /\ EachCallAsDescribed
      /\ \A k \in DOMAIN trace :
           ~trace[k].raised => trace[k].after[trace[k].id].status = StatusOf(trace[k].op)
      /\ \A id \in DOMAIN history :
           /\ CallsOn(id) # << >>
           /\ history[id].status = StatusOf(CallsOn(id)[Len(CallsOn(id))].op)

\* A request that complete_request had moved to COMPLETED is FAILED after a
\* later fail_request, and keeps the algorithm version of the completion
\* beside the error message of the failure.
C30_CompletedThenFailed ==
    /\ phase = "requests"
    /\ \E id \in DOMAIN history :
         /\ Len(EndingCalls(id)) >= 2
         /\ EndingCalls(id)[1].op = "complete"
         /\ history[id].status = "FAILED"
         /\ history[id].algorithm_version # << >>
         /\ history[id].error_message # << >>

\* fail_request with an id no row has raised EntityNotFoundError and the
\* table kept its rows.
C30_UnknownIdRaised ==
    /\ phase = "requests"
    /\ outcome.raised = "EntityNotFoundError"
    /\ history # << >>
    /\ trace[Len(trace)].op = "fail"
    /\ trace[Len(trace)].after = trace[Len(trace)].before

=============================================================================
